---- MODULE Spec2Model ----
(***************************************************************************)
(* Station congestion timeline of imaaiteru-kun.                           *)
(*                                                                         *)
(* The model covers the event endpoint (POST /api/events, route.ts) and    *)
(* the venues page (venues/page.tsx): the fetch effect that loads venues   *)
(* and events, and the grouping effect that flattens, filters, sorts and   *)
(* merges the congestion predictions into the timeline groups.  The API    *)
(* routes (events, search-venues, stations) answering arbitrary clients    *)
(* are the specification ApiSpec, and the passenger survey lookup          *)
(* (passengerSurvey.ts) is the specification SurveySpec.                   *)
(*                                                                         *)
(* Labels of the source are Japanese; the module writes "before" for       *)
(* the label of a window before doors open and "after" for the label of a  *)
(* window after the show.                                                  *)
(***************************************************************************)
EXTENDS Integers, Sequences, FiniteSets, TLC

\* ------------------------------------------------------------------ bounds
\* events plus congestion predictions in one payload
MaxSize == 4
\* facility entries in one payload
MaxFacilities == 2
\* fields (events / congestion_predictions) absent from one payload
MaxMissing == 1
\* events plus congestion predictions in a payload that has an absent field
MaxRawSize == 2
\* venues in one answer of the venue search
MaxVenues == 2
\* survey entries in one answer of the passenger survey
MaxEntries == 2
\* survey records (years) of one survey entry
MaxRecords == 2

\* --------------------------------------------------------- program constants
\* page.tsx:294  flatEvents.filter((event) => event.scale >= 5)
MinScale == 5
\* page.tsx:313  Math.min(10, lastGroup.totalScale + event.scale)
ScaleCap == 10

\* ------------------------------------------------------------- input domain
\* scale values the upstream model may answer: below the threshold, inside
\* the documented range, and outside the documented range 1..10
Scales == {3, 6, 12}

\* CongestionPrediction (page.tsx:22-26)
Predictions ==
  {[start_hour |-> 19, end_hour |-> 21, label |-> "before"],
   [start_hour |-> 19, end_hour |-> 21, label |-> "after"],
   [start_hour |-> 19, end_hour |-> 20, label |-> "before"],
   [start_hour |-> 17, end_hour |-> 21, label |-> "before"]}

HasEvents(facility) == "events" \in DOMAIN facility
HasPredictions(event) == "congestion_predictions" \in DOMAIN event

\* EventInfo (page.tsx:29-34) with n-1 congestion predictions, named by its
\* position j in the facility.  The reason text is never read by the page.
EventsN(n, j) ==
  {[event_name |-> "E" \o ToString(j), scale |-> s, congestion_predictions |-> p] :
      s \in Scales, p \in [1..(n - 1) -> Predictions]}

\* event lists holding exactly n events and predictions
RECURSIVE EventListsN(_)
EventListsN(n) ==
  IF n = 0 THEN {<<>>}
  ELSE UNION {LET R == EventListsN(n - m)
              IN  UNION {{Append(r, e) : e \in EventsN(m, Len(r) + 1)} : r \in R} :
              m \in 1..n}

\* FacilityWithEvents[] (page.tsx:37-40): k facilities, named by position,
\* holding exactly n events and predictions
RECURSIVE FacilityListsK(_, _)
FacilityListsK(k, n) ==
  IF k = 0 THEN (IF n = 0 THEN {<<>>} ELSE {})
  ELSE UNION {LET R == FacilityListsK(k - 1, n - m)
                  E == EventListsN(m)
              IN  {Append(r, [facility_name |-> "F" \o ToString(k), events |-> es]) :
                      r \in R, es \in E} :
              m \in 0..n}

TypedListsUpTo(size) ==
  UNION {FacilityListsK(k, n) : k \in 0..MaxFacilities, n \in 0..size}

\* the payloads that conform to FacilityWithEvents[]
TypedLists == TypedListsUpTo(MaxSize)

\* one absent field: a facility without `events`, or an event without
\* `congestion_predictions`
DropOne(p) ==
  {[p EXCEPT ![i] = [facility_name |-> p[i].facility_name]] :
      i \in {i \in DOMAIN p : HasEvents(p[i]) /\ p[i].events = <<>>}}
  \cup
  UNION {{[p EXCEPT ![i].events[j] = [event_name |-> p[i].events[j].event_name,
                                       scale |-> p[i].events[j].scale]] :
            j \in {j \in DOMAIN p[i].events :
                     /\ HasPredictions(p[i].events[j])
                     /\ p[i].events[j].congestion_predictions = <<>>}} :
         i \in {i \in DOMAIN p : HasEvents(p[i])}}

RECURSIVE WithMissing(_, _)
WithMissing(S, m) ==
  IF m = 0 THEN S ELSE WithMissing(S \cup UNION {DropOne(p) : p \in S}, m - 1)

\* the lists the upstream answer can parse to
RawLists == TypedLists \cup WithMissing(TypedListsUpTo(MaxRawSize), MaxMissing)

\* JSON values the upstream answer can parse to: a list of facility entries
\* or a single facility entry
JsonValues ==
  {[isArray |-> TRUE, items |-> p] : p \in RawLists}
  \cup {[isArray |-> FALSE, obj |-> p[1]] : p \in {q \in RawLists : Len(q) = 1}}

\* a JSON value whose facilities all carry `events` and whose events all
\* carry `congestion_predictions` (the declared type FacilityWithEvents[])
Typed(list) ==
  \A i \in DOMAIN list :
     /\ HasEvents(list[i])
     /\ \A j \in DOMAIN list[i].events : HasPredictions(list[i].events[j])

\* ------------------------------------------------- the grouping pipeline
Min(a, b) == IF a < b THEN a ELSE b

\* Array.prototype.flatMap: the concatenation of the mapped lists
RECURSIVE Concat(_)
Concat(lists) ==
  IF lists = <<>> THEN <<>> ELSE Head(lists) \o Concat(Tail(lists))

\* page.tsx:284-289  one tuple per congestion prediction of an event
PredictionTuples(facility, event) ==
  [k \in DOMAIN event.congestion_predictions |->
     [start_hour |-> event.congestion_predictions[k].start_hour,
      end_hour   |-> event.congestion_predictions[k].end_hour,
      label      |-> event.congestion_predictions[k].label,
      venue_name |-> facility.facility_name,
      event_name |-> event.event_name,
      scale      |-> event.scale]]

\* page.tsx:282-291  flatEvents
FlatEvents(data) ==
  Concat([i \in DOMAIN data |->
            Concat([j \in DOMAIN data[i].events |->
                      PredictionTuples(data[i], data[i].events[j])])])

\* page.tsx:282-291  facility.events.flatMap / event.congestion_predictions.map
\* on an absent field is a TypeError
FlatMapThrows(data) ==
  \E i \in DOMAIN data :
     \/ ~HasEvents(data[i])
     \/ \E j \in DOMAIN data[i].events : ~HasPredictions(data[i].events[j])

\* a lower threshold
SignificantFrom3(event) == event.scale >= 3

\* page.tsx:294  the filter predicate
Significant(event) == event.scale >= MinScale

\* the filter is skipped
FilteredEventsAll(flat) == flat

\* page.tsx:294  filteredEvents
FilteredEvents(flat) == SelectSeq(flat, Significant)

\* page.tsx:297  the comparator (a, b) => a.start_hour - b.start_hour
Compare(a, b) == a.start_hour - b.start_hour

\* an unstable sort: e is placed before the elements it compares equal to
InsertSortedBeforeEqual(sorted, e) ==
  LET later == {k \in DOMAIN sorted : sorted[k].start_hour - e.start_hour >= 0}
      at == IF later = {} THEN Len(sorted) + 1
            ELSE CHOOSE k \in later : \A m \in later : k <= m
  IN  SubSeq(sorted, 1, at - 1) \o <<e>> \o SubSeq(sorted, at, Len(sorted))

\* the place of e in a sorted list: behind every element that does not
\* compare greater than e (Array.prototype.sort is stable)
InsertSorted(sorted, e) ==
  LET later == {k \in DOMAIN sorted : Compare(sorted[k], e) > 0}
      at == IF later = {} THEN Len(sorted) + 1
            ELSE CHOOSE k \in later : \A m \in later : k <= m
  IN  SubSeq(sorted, 1, at - 1) \o <<e>> \o SubSeq(sorted, at, Len(sorted))

\* page.tsx:297  filteredEvents.sort(...)
RECURSIVE SortEvents(_)
SortEvents(events) ==
  IF events = <<>> THEN <<>>
  ELSE InsertSorted(SortEvents(SubSeq(events, 1, Len(events) - 1)),
                    events[Len(events)])

\* page.tsx:308-312, 321-325  the entry of an event in its group
Member(event) ==
  [venue_name |-> event.venue_name,
   event_name |-> event.event_name,
   scale      |-> event.scale]

\* page.tsx:302-307  the event continues the last group
SameWindow(lastGroup, event) ==
  /\ lastGroup.start_hour = event.start_hour
  /\ lastGroup.end_hour = event.end_hour
  /\ lastGroup.label = event.label

\* the total without its cap
MergedScaleUncapped(totalScale, scale) == totalScale + scale

\* page.tsx:313  the total of a group that takes one more event
MergedScale(totalScale, scale) == Min(ScaleCap, totalScale + scale)

\* page.tsx:316-329  the group a single event opens
NewGroup(event) ==
  [start_hour |-> event.start_hour,
   end_hour   |-> event.end_hour,
   label      |-> event.label,
   events     |-> <<Member(event)>>,
   totalScale |-> event.scale,
   eventCount |-> 1]

\* a group-by: the event joins any earlier group of its window
GroupStepByKey(acc, event) ==
  LET same == {k \in DOMAIN acc :
                 /\ acc[k].start_hour = event.start_hour
                 /\ acc[k].end_hour = event.end_hour
                 /\ acc[k].label = event.label}
  IN  IF same # {}
      THEN LET g == CHOOSE k \in same : \A m \in same : k <= m
           IN  [acc EXCEPT ![g] =
                  [@ EXCEPT !.events = Append(@, [venue_name |-> event.venue_name,
                                                  event_name |-> event.event_name,
                                                  scale |-> event.scale]),
                            !.totalScale = IF @ + event.scale > 10 THEN 10
                                           ELSE @ + event.scale,
                            !.eventCount = @ + 1]]
      ELSE Append(acc, [start_hour |-> event.start_hour,
                        end_hour   |-> event.end_hour,
                        label      |-> event.label,
                        events     |-> <<[venue_name |-> event.venue_name,
                                          event_name |-> event.event_name,
                                          scale |-> event.scale]>>,
                        totalScale |-> event.scale,
                        eventCount |-> 1])

\* a reducer that drops the event that continues the last group
GroupStepDropMerged(acc, event) ==
  IF acc # <<>> /\ SameWindow(acc[Len(acc)], event)
  THEN acc
  ELSE Append(acc, NewGroup(event))

\* page.tsx:300-331  the reducer
GroupStep(acc, event) ==
  IF acc # <<>> /\ SameWindow(acc[Len(acc)], event)
  THEN [acc EXCEPT ![Len(acc)] =
          [@ EXCEPT !.events = Append(@, Member(event)),
                    !.totalScale = MergedScale(@, event.scale),
                    !.eventCount = @ + 1]]
  ELSE Append(acc, NewGroup(event))

\* page.tsx:300-332  filteredEvents.reduce(..., [])
RECURSIVE Reduce(_, _)
Reduce(acc, events) ==
  IF events = <<>> THEN acc
  ELSE Reduce(GroupStep(acc, Head(events)), Tail(events))

\* page.tsx:282-332  grouped
GroupEvents(data) == Reduce(<<>>, SortEvents(FilteredEvents(FlatEvents(data))))

\* page.tsx:163-165  eventsData.some(f => f.events.some(e => e.scale >= 5)):
\* "throw" when a facility without `events` is visited before a congested
\* event is found
RECURSIVE HasAnyCongestedEvent(_)
HasAnyCongestedEvent(data) ==
  IF data = <<>> THEN "false"
  ELSE IF ~HasEvents(Head(data)) THEN "throw"
  ELSE IF \E j \in DOMAIN Head(data).events : Head(data).events[j].scale >= MinScale
       THEN "true"
  ELSE HasAnyCongestedEvent(Tail(data))

\* ------------------------------------------- POST /api/events (route.ts)
\* null / undefined of a JSON-valued variable
Null == [isNull |-> TRUE]
IsNull(v) == "isNull" \in DOMAIN v

\* what model.generateContent answers: it throws, or its text is blank, is
\* not JSON, or parses to a JSON value.  A ```json fence around the text is
\* stripped by route.ts:128-129 and leaves the same three cases.
GeminiOutcomes ==
  {[kind |-> "throws"], [kind |-> "blank"], [kind |-> "garbage"]}
  \cup {[kind |-> "json", value |-> v] : v \in JsonValues}

\* the check without station_name
ValidBodyNoStation(req) ==
  /\ req.target_date
  /\ req.facility_list = "array"

\* route.ts:98-103  the body names a date, a facility list and a station
ValidBody(req) ==
  /\ req.target_date
  /\ req.facility_list = "array"
  /\ req.station_name

\* route.ts:83-124  the handler gets as far as model.generateContent
CallsGemini(apiKey, req) == apiKey /\ req.json /\ ValidBody(req)

\* route.ts:125  result.response.text(): blank, garbage (not JSON) or json
\* ("null" when there is no text: no call, or the call throws)
ResponseText(apiKey, req, gemini) ==
  IF CallsGemini(apiKey, req) /\ gemini.kind # "throws" THEN gemini.kind ELSE "null"

\* route.ts:143  JSON.parse(cleanedText) (Null when the handler does not
\* get there)
ParsedEvents(apiKey, req, gemini) ==
  IF apiKey /\ req.json /\ ValidBody(req) /\ gemini.kind = "json"
  THEN gemini.value ELSE Null

\* the parsed value is returned as it is
WrapEventsNever(events) == events

\* route.ts:146-150  a value that is not an array is wrapped into one
WrapEvents(events) ==
  IF ~events.isArray THEN [isArray |-> TRUE, items |-> <<events.obj>>]
  ELSE events

\* the handler without the check of route.ts:131: a blank text goes on to
\* JSON.parse, which throws
PostEventsNoBlankCheck(apiKey, req, gemini) ==
  IF ~apiKey THEN [status |-> 500, detail |-> "api key is not configured"]
  ELSE IF ~req.json THEN [status |-> 400, detail |-> "invalid JSON in request body"]
  ELSE IF ~ValidBody(req)
       THEN [status |-> 400,
             detail |-> "target_date, facility_list, and station_name are required"]
  ELSE IF gemini.kind = "throws"
       THEN [status |-> 500, detail |-> "error talking to Gemini",
             error |-> "upstream error message"]
  ELSE IF gemini.kind \in {"blank", "garbage"}
       THEN [status |-> 500, detail |-> "Gemini response was not valid JSON",
             responseText |-> gemini.kind]
  ELSE [status |-> 200, body |-> WrapEvents(ParsedEvents(apiKey, req, gemini))]

\* route.ts:82-173  the response of the handler
PostEvents(apiKey, req, gemini) ==
  IF ~apiKey THEN [status |-> 500, detail |-> "api key is not configured"]
  ELSE IF ~req.json THEN [status |-> 400, detail |-> "invalid JSON in request body"]
  ELSE IF ~ValidBody(req)
       THEN [status |-> 400,
             detail |-> "target_date, facility_list, and station_name are required"]
  ELSE IF gemini.kind = "throws"
       THEN [status |-> 500, detail |-> "error talking to Gemini",
             error |-> "upstream error message"]
  ELSE IF gemini.kind = "blank"
       THEN [status |-> 500, detail |-> "Gemini response was empty",
             responseText |-> "blank"]
  ELSE IF gemini.kind = "garbage"
       THEN [status |-> 500, detail |-> "Gemini response was not valid JSON",
             responseText |-> "garbage"]
  ELSE [status |-> 200, body |-> WrapEvents(ParsedEvents(apiKey, req, gemini))]

\* ------------------------------------------------ the venues page (page.tsx)
NoError == "null"

\* page.tsx:116-126  the answer of /api/search-venues as the page sees it
VenueResponses ==
  {[ok |-> FALSE, detail |-> "venue search failed"],
   [ok |-> TRUE, Feature |-> <<>>, coordinates |-> TRUE],
   [ok |-> TRUE, Feature |-> <<"V1">>, coordinates |-> TRUE]}

\* page.tsx:189-226  what the geosearch of imagePromise ends with: the
\* request rejects, answers non-ok, answers a body without query.geosearch,
\* answers pages none of which is a station, or answers a station page
GeoOutcomes == {"rejects", "not ok", "malformed", "no station page", "station page"}

\* page.tsx:240-253  what the page-image request ends with
ImageOutcomes == {"rejects", "malformed", "no page", "no thumbnail", "thumbnail"}

\* page.tsx:174, 191-223  stationPageTitle after the geosearch is set
StationPageTitle(geo) == geo = "station page"

\* page.tsx:241-249  the request yields a thumbnail to show
Thumbnail(img) == img = "thumbnail"

\* page.tsx:153-157  the message of a failed event request
EventErrorMessage(res) ==
  IF "error" \in DOMAIN res
  THEN res.detail \o " (" \o res.error \o ")"
  ELSE res.detail

VARIABLES
  apiKey,             \* route.ts:8      GEMINI_API_KEY is configured
  params,             \* page.tsx:83-84  stationName and date are in the URL
  pc,                 \* where fetchAllData stands
  venueData,          \* page.tsx:86
  eventData,          \* page.tsx:87
  groupedEvents,      \* page.tsx:88
  isLoading,          \* page.tsx:89
  error,              \* page.tsx:90
  hasCongestedEvents, \* page.tsx:91
  progressMessage,    \* page.tsx:95
  eventPromise,       \* page.tsx:133  none, pending, fulfilled, rejected
  rejection,          \* the message eventPromise rejected with
  effectPending,      \* eventData changed and the grouping effect has not run
  crashed,            \* the grouping effect threw
  eventReq,           \* the request to /api/events in flight
  eventRes,           \* the response of /api/events in flight
  events,             \* route.ts:143  the handler's parsed value
  responseText,       \* route.ts:125  the kind of text the upstream model answered
  imagePromise,       \* page.tsx:169  none, geo, img, fulfilled
  stationImageUrl,    \* page.tsx:92
  call,               \* the request an API route is handling
  handlerPc,          \* where the handler of the API route stands
  upstream,           \* the upstream services the handler has called
  response,           \* the response of the API route
  surveyFetch,        \* passengerSurvey.ts:24-38  the key and the answer
  stationPassengerMap, \* passengerSurvey.ts:40, 62
  selector,           \* the state of the railway and station selector
  stationRequests,    \* the requests to /api/stations in flight
  localStorage,       \* part_007:42  the item imaaiteru-kun-favorites
  barPage,            \* part_004:109-119  the venues page with a progress bar
  loads,              \* page.tsx:104-273  the runs of fetchAllData, oldest first
  loadPage            \* page.tsx:86-92  the page state the runs write

vars ==
  <<apiKey, params, pc, venueData, eventData, groupedEvents, isLoading, error,
    hasCongestedEvents, progressMessage, eventPromise, rejection, effectPending,
    crashed, eventReq, eventRes, events, responseText, imagePromise,
    stationImageUrl, call, handlerPc, upstream, response, surveyFetch, stationPassengerMap,
    selector, stationRequests, localStorage, barPage, loads, loadPage>>

\* the state of the API routes and of the survey lookup
apiVars == <<call, handlerPc, upstream, response>>
surveyVars == <<surveyFetch, stationPassengerMap>>

\* the state of the home page's selector
selectorVars == <<selector, stationRequests, localStorage>>

\* the state of the components other than the venues page
\* the state of a venues page whose station or date changes
reloadVars == <<loads, loadPage>>

auxVars == <<selectorVars, barPage, reloadVars>>

pageState ==
  <<venueData, eventData, groupedEvents, isLoading, error, hasCongestedEvents,
    progressMessage>>

\* page.tsx:86-95  the state of the page when it is first rendered
Init ==
  /\ apiKey \in BOOLEAN
  /\ params \in BOOLEAN
  /\ pc = "mount"
  /\ venueData = Null
  /\ eventData = Null
  /\ groupedEvents = <<>>
  /\ isLoading = TRUE
  /\ error = NoError
  /\ hasCongestedEvents = FALSE
  /\ progressMessage = ""
  /\ eventPromise = "none"
  /\ rejection = NoError
  /\ effectPending = FALSE
  /\ crashed = FALSE
  /\ eventReq = Null
  /\ eventRes = Null
  /\ events = Null
  /\ responseText = NoError
  /\ imagePromise = "none"
  /\ stationImageUrl = NoError
  /\ call = Null
  /\ handlerPc = "idle"
  /\ upstream = <<>>
  /\ response = Null
  /\ surveyFetch = Null
  /\ stationPassengerMap = Null
  /\ selector = [mounted |-> FALSE, pushed |-> ""]
  /\ stationRequests = <<>>
  /\ localStorage = [present |-> FALSE, items |-> <<>>]
  /\ barPage = [pc |-> "mount", progress |-> 0, progressMessage |-> "",
                isLoading |-> TRUE, error |-> NoError, venueData |-> FALSE,
                eventData |-> "null", hasCongestedEvents |-> FALSE,
                stationImageUrl |-> NoError, eventPromise |-> "none",
                imagePromise |-> "none"]
  /\ loads = <<>>
  /\ loadPage = [venueData |-> 0, eventData |-> 0, groupedEvents |-> 0,
                 stationImageUrl |-> 0, error |-> 0, isLoading |-> TRUE]

\* page.tsx:97-116, 275, 279-280  the effects of the first render: without
\* station or date the page shows an error; otherwise fetchAllData resets
\* the state and asks for the venues.  The grouping effect sees eventData
\* null and returns.
Mount ==
  /\ pc = "mount"
  /\ IF ~params
     THEN /\ error' = "station and date are not given"
          /\ isLoading' = FALSE
          /\ pc' = "done"
          /\ UNCHANGED <<venueData, eventData, groupedEvents, progressMessage,
                         stationImageUrl>>
     ELSE /\ isLoading' = TRUE
          /\ error' = NoError
          /\ venueData' = Null
          /\ eventData' = Null
          /\ groupedEvents' = <<>>
          /\ stationImageUrl' = NoError
          /\ progressMessage' = "searching venues"
          /\ pc' = "venue"
  /\ UNCHANGED <<apiKey, params, hasCongestedEvents, eventPromise, rejection,
                 effectPending, crashed, eventReq, eventRes, events,
                 imagePromise, apiVars, surveyVars, auxVars,
                 responseText>>

\* page.tsx:116-190, 260-266  the venue search answers.  A failure is thrown
\* to the catch block.  Otherwise eventPromise starts: with no venue it sets
\* eventData to [] and is done, with venues it posts the event request.
\* Then imagePromise starts: without coordinates it is done, with
\* coordinates it sends the geosearch.
VenueResponse ==
  /\ pc = "venue"
  /\ ~crashed
  /\ \E res \in VenueResponses :
       IF ~res.ok
       THEN /\ error' = res.detail
            /\ progressMessage' = "error"
            /\ pc' = "timer"
            /\ UNCHANGED <<venueData, eventData, eventPromise, effectPending,
                           eventReq, imagePromise>>
       ELSE /\ venueData' = res
            /\ imagePromise' = IF res.coordinates THEN "geo" ELSE "fulfilled"
            /\ progressMessage' = "analysing events"
            /\ pc' = "join"
            /\ UNCHANGED error
            /\ IF Len(res.Feature) = 0
               THEN /\ eventData' = [isArray |-> TRUE, items |-> <<>>]
                    /\ effectPending' = TRUE
                    /\ eventPromise' = "fulfilled"
                    /\ UNCHANGED eventReq
               ELSE /\ eventReq' = [json |-> TRUE, target_date |-> TRUE,
                                    facility_list |-> "array",
                                    station_name |-> TRUE]
                    /\ eventPromise' = "pending"
                    /\ UNCHANGED <<eventData, effectPending>>
  /\ UNCHANGED <<apiKey, params, groupedEvents, isLoading, hasCongestedEvents,
                 rejection, crashed, eventRes, events, stationImageUrl,
                 apiVars, surveyVars, auxVars,
                 responseText>>

\* route.ts:82-173  the event endpoint handles the request
POST ==
  /\ ~IsNull(eventReq)
  /\ \E gemini \in GeminiOutcomes :
       /\ responseText' = ResponseText(apiKey, eventReq, gemini)
       /\ events' = ParsedEvents(apiKey, eventReq, gemini)
       /\ eventRes' = PostEvents(apiKey, eventReq, gemini)
  /\ eventReq' = Null
  /\ UNCHANGED <<apiKey, params, pc, pageState, eventPromise, rejection,
                 effectPending, crashed, imagePromise, stationImageUrl,
                 apiVars, surveyVars, auxVars>>

\* page.tsx:141  fetch("/api/events") rejects
EventFetchFails ==
  /\ ~IsNull(eventReq)
  /\ eventReq' = Null
  /\ eventPromise' = "rejected"
  /\ rejection' = "Failed to fetch"
  /\ UNCHANGED <<apiKey, params, pc, pageState, effectPending, crashed, eventRes,
                 events, imagePromise, stationImageUrl, apiVars, surveyVars, auxVars,
                 responseText>>

\* page.tsx:151-166  eventPromise receives the response
EventResponse ==
  /\ ~IsNull(eventRes)
  /\ ~crashed
  /\ eventRes' = Null
  /\ IF eventRes.status # 200
     THEN /\ eventPromise' = "rejected"
          /\ rejection' = EventErrorMessage(eventRes)
          /\ UNCHANGED <<eventData, effectPending, hasCongestedEvents>>
     ELSE /\ eventData' = eventRes.body
          /\ effectPending' = TRUE
          /\ LET congested == IF eventRes.body.isArray
                              THEN HasAnyCongestedEvent(eventRes.body.items)
                              ELSE "throw"
             IN  IF congested = "throw"
                 THEN /\ eventPromise' = "rejected"
                      /\ rejection' = "TypeError"
                      /\ UNCHANGED hasCongestedEvents
                 ELSE /\ eventPromise' = "fulfilled"
                      /\ hasCongestedEvents' = (congested = "true")
                      /\ UNCHANGED rejection
  /\ UNCHANGED <<apiKey, params, pc, venueData, groupedEvents, isLoading, error,
                 progressMessage, crashed, eventReq, events, imagePromise,
                 stationImageUrl, apiVars, surveyVars, auxVars,
                 responseText>>

\* the join that awaits eventPromise only
JoinEventOnly ==
  /\ pc = "join"
  /\ ~crashed
  /\ eventPromise \in {"fulfilled", "rejected"}
  /\ IF eventPromise = "rejected"
     THEN /\ error' = rejection
          /\ progressMessage' = "error"
     ELSE /\ progressMessage' = "done"
          /\ UNCHANGED error
  /\ pc' = "timer"
  /\ UNCHANGED <<apiKey, params, venueData, eventData, groupedEvents, isLoading,
                 hasCongestedEvents, eventPromise, rejection, effectPending,
                 crashed, eventReq, eventRes, events, imagePromise,
                 stationImageUrl, apiVars, surveyVars, auxVars, responseText>>

\* page.tsx:258-266  Promise.all settles: it rejects as soon as eventPromise
\* rejects (imagePromise never rejects) and the rejection is caught and
\* becomes the error; it fulfils once both promises are fulfilled and the
\* load is complete
Join ==
  /\ pc = "join"
  /\ ~crashed
  /\ IF eventPromise = "rejected" THEN TRUE
     ELSE eventPromise = "fulfilled" /\ imagePromise = "fulfilled"
  /\ IF eventPromise = "rejected"
     THEN /\ error' = rejection
          /\ progressMessage' = "error"
     ELSE /\ progressMessage' = "done"
          /\ UNCHANGED error
  /\ pc' = "timer"
  /\ UNCHANGED <<apiKey, params, venueData, eventData, groupedEvents, isLoading,
                 hasCongestedEvents, eventPromise, rejection, effectPending,
                 crashed, eventReq, eventRes, events, imagePromise,
                 stationImageUrl, apiVars, surveyVars, auxVars,
                 responseText>>

\* page.tsx:267-272  the timer of the finally block fires
Timer ==
  /\ pc = "timer"
  /\ ~crashed
  /\ isLoading' = FALSE
  /\ pc' = "done"
  /\ UNCHANGED <<apiKey, params, venueData, eventData, groupedEvents, error,
                 hasCongestedEvents, progressMessage, eventPromise, rejection,
                 effectPending, crashed, eventReq, eventRes, events,
                 imagePromise, stationImageUrl, apiVars, surveyVars, auxVars,
                 responseText>>

\* page.tsx:279-335  the grouping effect runs for the new eventData
GroupingEffect ==
  /\ effectPending
  /\ ~crashed
  /\ effectPending' = FALSE
  /\ IF IsNull(eventData) \/ ~eventData.isArray
     THEN UNCHANGED <<groupedEvents, crashed>>
     ELSE IF FlatMapThrows(eventData.items)
          THEN /\ crashed' = TRUE
               /\ UNCHANGED groupedEvents
          ELSE /\ groupedEvents' = GroupEvents(eventData.items)
               /\ UNCHANGED crashed
  /\ UNCHANGED <<apiKey, params, pc, venueData, eventData, isLoading, error,
                 hasCongestedEvents, progressMessage, eventPromise, rejection,
                 eventReq, eventRes, events, imagePromise, stationImageUrl,
                 apiVars, surveyVars, auxVars,
                 responseText>>

\* a geosearch whose rejection is not caught and becomes the error
GeoSearchResponseUncaught ==
  /\ imagePromise = "geo"
  /\ ~crashed
  /\ \E geo \in GeoOutcomes :
       /\ imagePromise' = IF StationPageTitle(geo) THEN "img" ELSE "fulfilled"
       /\ error' = IF geo = "rejects" THEN "Failed to fetch" ELSE error
  /\ UNCHANGED <<apiKey, params, pc, venueData, eventData, groupedEvents, isLoading,
                 hasCongestedEvents, progressMessage, eventPromise, rejection,
                 effectPending, crashed, eventReq, eventRes, events,
                 stationImageUrl, apiVars, surveyVars, auxVars,
                 responseText>>

\* page.tsx:189-229  the geosearch of imagePromise ends.  Every failure is
\* caught; with a station page the page-image request is sent, without one
\* imagePromise is done.
GeoSearchResponse ==
  /\ imagePromise = "geo"
  /\ ~crashed
  /\ \E geo \in GeoOutcomes :
       imagePromise' = IF StationPageTitle(geo) THEN "img" ELSE "fulfilled"
  /\ UNCHANGED <<apiKey, params, pc, pageState, eventPromise, rejection,
                 effectPending, crashed, eventReq, eventRes, events,
                 stationImageUrl, apiVars, surveyVars, auxVars,
                 responseText>>

\* page.tsx:240-254  the page-image request ends.  Every failure is caught;
\* a thumbnail becomes the station image.
ImageResponse ==
  /\ imagePromise = "img"
  /\ ~crashed
  /\ imagePromise' = "fulfilled"
  /\ \E img \in ImageOutcomes :
       stationImageUrl' = IF Thumbnail(img) THEN "thumbnail.source" ELSE stationImageUrl
  /\ UNCHANGED <<apiKey, params, pc, pageState, eventPromise, rejection,
                 effectPending, crashed, eventReq, eventRes, events, apiVars,
                 surveyVars, auxVars, responseText>>

Next ==
  \/ Mount
  \/ VenueResponse
  \/ POST
  \/ EventFetchFails
  \/ EventResponse
  \/ Join
  \/ Timer
  \/ GroupingEffect
  \/ GeoSearchResponse
  \/ ImageResponse

Spec == Init /\ [][Next]_vars

\* page.tsx:337-348  what renderContent shows
Rendered ==
  IF crashed THEN "crashed"
  ELSE IF isLoading THEN "loading"
  ELSE IF error # NoError THEN "error"
  ELSE IF Len(groupedEvents) = 0 THEN "no congestion"
  ELSE "timeline"

\* fetchAllData has finished and the grouping effect has run (the image
\* task may still be running when eventPromise has rejected)
Settled == pc = "done" /\ ~effectPending

\* ============================================================ the API routes
\* A client sends one request to one of the routes; the handler validates
\* it, calls its upstream services one after the other and answers.  The
\* log `upstream` names every service the handler has called and what the
\* service answered.

\* requests a client can send to POST /api/events: a body that is not JSON,
\* or a JSON body with or without each of the three fields
EventRequests ==
  {[json |-> FALSE]}
  \cup {[json |-> TRUE, target_date |-> d, facility_list |-> f, station_name |-> n] :
          d \in BOOLEAN, f \in {"missing", "array", "other"}, n \in BOOLEAN}

\* route.ts:405-406  searchParams.get("stationName"): absent, or a string
StationNames ==
  {[given |-> FALSE]}
  \cup {[given |-> TRUE, name |-> n] : n \in {"", "A", "AB", "ABC"}}

\* route.ts:408  !station || station.length < 2
MissingStation(station) == ~station.given \/ Len(station.name) < 2

\* route.ts:353-358  what the coordinate service (Nominatim) ends with: the
\* request rejects, answers non-ok, answers a body that is not JSON, answers
\* no match, or answers a match
NominatimOutcomes == {"rejects", "not ok", "malformed", "empty", "match"}

\* route.ts:343-372  getStationCoordinates: the first match, and null
\* coordinates both when there is no match and when the service fails
GetStationCoordinates(outcome) ==
  IF outcome = "match"
  THEN [lat |-> "35.68", lon |-> "139.76", displayName |-> "display_name"]
  ELSE [lat |-> "null", lon |-> "null", displayName |-> "null"]

\* route.ts:418  !lat || !lon
NoCoordinates(coordinates) == coordinates.lat = "null" \/ coordinates.lon = "null"

\* venue names as lists of characters, "sp" an ASCII space and "wsp" a
\* full-width space
VenueNames ==
  {<<"a">>, <<"b">>, <<"a", "sp", "b">>, <<"a", "wsp", "c">>, <<"b", "sp", "a", "wsp", "c">>}

\* route.ts:439-450  EXCLUDED_CATEGORIES (two of the ten categories)
ExcludedCategories == {"golf course", "game center"}

\* route.ts:453  venue.Property?.Genre?.[0]?.Name: "" when the venue has none
Genres == {"", "hall", "golf course"}

\* YahooVenueFeature (route.ts:326-335) at position i of the answer
VenuesAt(i) == {[Id |-> i, Name |-> n, Genre |-> g] : n \in VenueNames, g \in Genres}

RECURSIVE VenueLists(_)
VenueLists(n) ==
  IF n = 0 THEN {<<>>}
  ELSE {Append(l, v) : l \in VenueLists(n - 1), v \in VenuesAt(n)}

\* route.ts:388-390  what the venue search (Yahoo) ends with: a failure, or
\* a body with or without `Feature`
YahooOutcomes ==
  {[kind |-> k] : k \in {"rejects", "not ok", "malformed"}}
  \cup {[kind |-> "json", value |-> [ResultInfo |-> [Count |-> 0]]]}
  \cup {[kind |-> "json", value |-> [ResultInfo |-> [Count |-> Len(l)], Feature |-> l]] :
          l \in UNION {VenueLists(n) : n \in 0..MaxVenues}}

\* route.ts:374-395  searchEventVenues: the body, and null when the service
\* fails
SearchEventVenues(outcome) ==
  IF outcome.kind = "json" THEN outcome.value ELSE Null

\* String.prototype.split(sep)[0]: the part before the first sep
RECURSIVE Before(_, _)
Before(name, sep) ==
  IF name = <<>> \/ Head(name) = sep THEN <<>>
  ELSE <<Head(name)>> \o Before(Tail(name), sep)

\* the base name cut at ASCII spaces only
BaseNameAsciiOnly(venue) == Before(venue.Name, "sp")

\* route.ts:463  venue.Name.split(" ")[0].split("　")[0]
BaseName(venue) == Before(Before(venue.Name, "sp"), "wsp")

\* route.ts:451-456  the category filter
KeepCategory(venue) == venue.Genre = "" \/ venue.Genre \notin ExcludedCategories

\* route.ts:459-471  the first venue of every base name, with its category
RECURSIVE Deduplicate(_, _)
Deduplicate(venues, uniqueNames) ==
  IF venues = <<>> THEN <<>>
  ELSE IF BaseName(Head(venues)) \in uniqueNames
       THEN Deduplicate(Tail(venues), uniqueNames)
  ELSE <<[Id |-> Head(venues).Id, Name |-> Head(venues).Name,
          Genre |-> Head(venues).Genre, Category |-> Head(venues).Genre]>>
       \o Deduplicate(Tail(venues), uniqueNames \cup {BaseName(Head(venues))})

\* route.ts:436-481  processedVenueResults
ProcessedVenueResults(found) ==
  LET originalFeatures == IF "Feature" \in DOMAIN found THEN found.Feature
                          ELSE <<>>
      deduplicatedFeatures == Deduplicate(SelectSeq(originalFeatures, KeepCategory), {})
  IN  [ResultInfo |-> [Count |-> Len(deduplicatedFeatures)],
       Feature |-> deduplicatedFeatures]

\* route.ts:399-413  GET /api/search-venues before its first upstream call:
\* the early response, or Null when the handler goes on to the coordinates
SearchVenuesEarly(clientId, station) ==
  IF ~clientId THEN [status |-> 500, detail |-> "server configuration error"]
  ELSE IF MissingStation(station)
       THEN [status |-> 400, detail |-> "give stationName as a query parameter"]
  ELSE Null

\* route.ts:428-487  GET /api/search-venues after the venue search
SearchVenuesResponse(coordinates, found) ==
  IF IsNull(found)
  THEN [status |-> 500, detail |-> "error during the venue search"]
  ELSE [status |-> 200,
        body |-> [search_station |-> coordinates.displayName,
                  coordinates |-> [lat |-> coordinates.lat, lon |-> coordinates.lon],
                  venue_results |-> ProcessedVenueResults(found)]]

\* odpt.ts:50-56  what the station list request (ODPT) ends with: a failure,
\* or rows, each with a title and an id
OdptOutcomes ==
  {[kind |-> k] : k \in {"rejects", "not ok", "malformed"}}
  \cup {[kind |-> "json", rows |-> r] :
          r \in UNION {[1..n -> {[title |-> t, sameAs |-> i] : t \in 1..2, i \in 1..2}] :
                         n \in 0..2}}

\* odpt.ts:63  sort by label: a stable insertion
RECURSIVE SortByLabel(_)
SortByLabel(options) ==
  IF options = <<>> THEN <<>>
  ELSE LET sorted == SortByLabel(SubSeq(options, 1, Len(options) - 1))
           last == options[Len(options)]
           k == Cardinality({i \in DOMAIN sorted : sorted[i].label <= last.label})
       IN  SubSeq(sorted, 1, k) \o <<last>> \o SubSeq(sorted, k + 1, Len(sorted))

\* odpt.ts:38-64  fetchStationsByRailway: the options, or "throw"
FetchStationsByRailway(odptKey, outcome) ==
  IF ~odptKey \/ outcome.kind # "json" THEN [threw |-> TRUE]
  ELSE [threw |-> FALSE,
        options |-> SortByLabel([i \in DOMAIN outcome.rows |->
                                   [label |-> outcome.rows[i].title,
                                    value |-> outcome.rows[i].sameAs]])]

\* part_005:4-25  GET /api/stations after fetchStationsByRailway
StationsResponse(stations) ==
  IF stations.threw THEN [status |-> 500, error |-> "Failed to fetch stations"]
  ELSE [status |-> 200, body |-> stations.options]

\* the handler calls a service
Called(service) == Append(upstream, [service |-> service, answer |-> "pending"])

\* the service called last has answered
Answered(answer) == [upstream EXCEPT ![Len(upstream)].answer = answer]

\* route.ts:426-436  the venue search has answered: the handler holds the
\* features of the body, none when the search failed or the body has none
AnsweredFeatures(outcome) ==
  [upstream EXCEPT ![Len(upstream)] =
     [service |-> @.service, answer |-> outcome.kind,
      features |-> IF outcome.kind = "json" /\ "Feature" \in DOMAIN outcome.value
                   THEN outcome.value.Feature ELSE <<>>]]

\* route.ts:82-124  POST /api/events takes a request: it answers at once, or
\* calls the upstream model
EventsRequest ==
  /\ handlerPc = "idle"
  /\ \E req \in EventRequests :
       /\ call' = [route |-> "events", req |-> req]
       /\ IF CallsGemini(apiKey, req)
          THEN /\ upstream' = Called("gemini")
               /\ handlerPc' = "gemini"
               /\ UNCHANGED response
          ELSE /\ response' = PostEvents(apiKey, req, [kind |-> "not called"])
               /\ handlerPc' = "done"
               /\ UNCHANGED upstream
  /\ UNCHANGED <<apiKey, params, pc, pageState, eventPromise, rejection,
                 effectPending, crashed, eventReq, eventRes, events, responseText,
                 imagePromise, stationImageUrl, surveyVars, auxVars>>

\* route.ts:124-172  the upstream model answers and the handler responds
GeminiAnswer ==
  /\ handlerPc = "gemini"
  /\ \E gemini \in GeminiOutcomes :
       /\ upstream' = Answered(gemini.kind)
       /\ response' = PostEvents(apiKey, call.req, gemini)
  /\ handlerPc' = "done"
  /\ UNCHANGED <<apiKey, params, pc, pageState, eventPromise, rejection,
                 effectPending, crashed, eventReq, eventRes, events, responseText,
                 imagePromise, stationImageUrl, call, surveyVars, auxVars>>

\* route.ts:399-416  GET /api/search-venues takes a request: it answers at
\* once, or asks for the coordinates of the station
SearchVenuesRequest ==
  /\ handlerPc = "idle"
  /\ \E clientId \in BOOLEAN, station \in StationNames :
       /\ call' = [route |-> "search-venues", clientId |-> clientId,
                   stationName |-> station, coordinates |-> Null]
       /\ IF IsNull(SearchVenuesEarly(clientId, station))
          THEN /\ upstream' = Called("nominatim")
               /\ handlerPc' = "coordinates"
               /\ UNCHANGED response
          ELSE /\ response' = SearchVenuesEarly(clientId, station)
               /\ handlerPc' = "done"
               /\ UNCHANGED upstream
  /\ UNCHANGED <<apiKey, params, pc, pageState, eventPromise, rejection,
                 effectPending, crashed, eventReq, eventRes, events, responseText,
                 imagePromise, stationImageUrl, surveyVars, auxVars>>

\* route.ts:416-426  the coordinate service has ended: without coordinates
\* the handler answers 404, with coordinates it calls the venue search
CoordinatesAnswer ==
  /\ handlerPc = "coordinates"
  /\ \E outcome \in NominatimOutcomes :
       LET coordinates == GetStationCoordinates(outcome)
       IN  /\ call' = [call EXCEPT !.coordinates = coordinates]
           /\ IF NoCoordinates(coordinates)
              THEN /\ upstream' = Answered(outcome)
                   /\ response' = [status |-> 404, detail |-> "coordinates not found"]
                   /\ handlerPc' = "done"
              ELSE /\ upstream' = Append(Answered(outcome),
                                         [service |-> "yahoo", answer |-> "pending"])
                   /\ handlerPc' = "venues"
                   /\ UNCHANGED response
  /\ UNCHANGED <<apiKey, params, pc, pageState, eventPromise, rejection,
                 effectPending, crashed, eventReq, eventRes, events, responseText,
                 imagePromise, stationImageUrl, surveyVars, auxVars>>

\* route.ts:426-487  the venue search has ended and the handler responds
VenuesAnswer ==
  /\ handlerPc = "venues"
  /\ \E outcome \in YahooOutcomes :
       /\ upstream' = AnsweredFeatures(outcome)
       /\ response' = SearchVenuesResponse(call.coordinates, SearchEventVenues(outcome))
  /\ handlerPc' = "done"
  /\ UNCHANGED <<apiKey, params, pc, pageState, eventPromise, rejection,
                 effectPending, crashed, eventReq, eventRes, events, responseText,
                 imagePromise, stationImageUrl, call, surveyVars, auxVars>>

\* part_005:4-16, odpt.ts:41-50  GET /api/stations takes a request: without
\* railwayId it answers 400, without the ODPT key fetchStationsByRailway
\* throws and it answers 500, otherwise the station list is requested
StationsRequest ==
  /\ handlerPc = "idle"
  /\ \E odptKey \in BOOLEAN, railwayId \in BOOLEAN :
       /\ call' = [route |-> "stations", odptKey |-> odptKey, railwayId |-> railwayId]
       /\ IF ~railwayId
          THEN /\ response' = [status |-> 400, error |-> "railwayId is required"]
               /\ handlerPc' = "done"
               /\ UNCHANGED upstream
          ELSE IF ~odptKey
          THEN /\ response' = StationsResponse(
                                 FetchStationsByRailway(odptKey, [kind |-> "not called"]))
               /\ handlerPc' = "done"
               /\ UNCHANGED upstream
          ELSE /\ upstream' = Called("odpt")
               /\ handlerPc' = "stations"
               /\ UNCHANGED response
  /\ UNCHANGED <<apiKey, params, pc, pageState, eventPromise, rejection,
                 effectPending, crashed, eventReq, eventRes, events, responseText,
                 imagePromise, stationImageUrl, surveyVars, auxVars>>

\* part_005:15-24, odpt.ts:50-63  the station list request has ended
StationsAnswer ==
  /\ handlerPc = "stations"
  /\ \E outcome \in OdptOutcomes :
       /\ upstream' = Answered(outcome.kind)
       /\ response' = StationsResponse(FetchStationsByRailway(call.odptKey, outcome))
  /\ handlerPc' = "done"
  /\ UNCHANGED <<apiKey, params, pc, pageState, eventPromise, rejection,
                 effectPending, crashed, eventReq, eventRes, events, responseText,
                 imagePromise, stationImageUrl, call, surveyVars, auxVars>>

ApiNext ==
  \/ EventsRequest
  \/ GeminiAnswer
  \/ SearchVenuesRequest
  \/ CoordinatesAnswer
  \/ VenuesAnswer
  \/ StationsRequest
  \/ StationsAnswer

ApiSpec == Init /\ [][ApiNext]_vars

\* ===================================== the passenger survey (passengerSurvey.ts)
\* PassengerSurveyObject (passengerSurvey.ts:2-5): a survey year and its
\* figure
SurveyRecords ==
  {[surveyYear |-> y, passengerJourneys |-> j] : y \in {2021, 2022}, j \in {0, 100, 250}}

\* the station ids of the k-th survey entry; every station belongs to one
\* entry (ODPT keeps one survey per station group)
StationsOf(k) ==
  IF k = 1 THEN {<<"S1">>, <<"S1", "S2">>} ELSE {<<"S" \o ToString(k + 1)>>}

\* the k-th entry of PassengerSurveyResponse (passengerSurvey.ts:7-12), with
\* or without its survey records
EntriesAt(k) ==
  {[station |-> st] : st \in StationsOf(k)}
  \cup {[station |-> st, passengerSurveyObject |-> r] :
          st \in StationsOf(k),
          r \in UNION {[1..n -> SurveyRecords] : n \in 0..MaxRecords}}

RECURSIVE SurveyLists(_)
SurveyLists(n) ==
  IF n = 0 THEN {<<>>}
  ELSE {Append(l, e) : l \in SurveyLists(n - 1), e \in EntriesAt(n)}

\* passengerSurvey.ts:33-38  what the survey request ends with
SurveyOutcomes ==
  {[kind |-> k] : k \in {"rejects", "not ok", "malformed"}}
  \cup {[kind |-> "json", surveyData |-> l] :
          l \in UNION {SurveyLists(n) : n \in 0..MaxEntries}}

\* new Map()
EmptyMap == [s \in {} |-> 0]

\* the reducer that also lets a record of the same year replace the choice
LatestOfOrEqual(latest, current) ==
  IF current.surveyYear >= latest.surveyYear THEN current ELSE latest

\* passengerSurvey.ts:49-51  the reducer
LatestOf(latest, current) ==
  IF current.surveyYear > latest.surveyYear THEN current ELSE latest

\* passengerSurvey.ts:48-52  reduce without an initial value over the
\* records from position k on, `latest` being the choice so far
RECURSIVE ReduceLatest(_, _, _)
ReduceLatest(latest, records, k) ==
  IF k > Len(records) THEN latest
  ELSE ReduceLatest(LatestOf(latest, records[k]), records, k + 1)

LatestSurvey(records) == ReduceLatest(records[1], records, 2)

\* passengerSurvey.ts:56-58  map.set for every station id of the entry
RECURSIVE SetStations(_, _, _)
SetStations(map, stations, journeys) ==
  IF stations = <<>> THEN map
  ELSE SetStations([s \in DOMAIN map \cup {Head(stations)} |->
                      IF s = Head(stations) THEN journeys ELSE map[s]],
                   Tail(stations), journeys)

\* passengerSurvey.ts:42-60  the loop over the survey entries
RECURSIVE StationPassengerMapOf(_, _)
StationPassengerMapOf(surveyData, map) ==
  IF surveyData = <<>> THEN map
  ELSE LET stationData == Head(surveyData)
       IN  IF \/ "passengerSurveyObject" \notin DOMAIN stationData
              \/ Len(stationData.passengerSurveyObject) = 0
           THEN StationPassengerMapOf(Tail(surveyData), map)
           ELSE LET latestSurvey == LatestSurvey(stationData.passengerSurveyObject)
                IN  IF latestSurvey.passengerJourneys > 0
                    THEN StationPassengerMapOf(
                           Tail(surveyData),
                           SetStations(map, stationData.station,
                                       latestSurvey.passengerJourneys))
                    ELSE StationPassengerMapOf(Tail(surveyData), map)

\* passengerSurvey.ts:23-68  fetchStationPassengerData
FetchStationPassengerData(key, outcome) ==
  IF ~key \/ outcome.kind # "json" THEN EmptyMap
  ELSE StationPassengerMapOf(outcome.surveyData, EmptyMap)

\* passengerSurvey.ts:24-33  the lookup starts: without the key it returns
\* at once, with the key it requests the survey
SurveyCall ==
  /\ IsNull(surveyFetch)
  /\ \E key \in BOOLEAN :
       IF ~key
       THEN /\ surveyFetch' = [key |-> FALSE, outcome |-> [kind |-> "not called"]]
            /\ stationPassengerMap' =
                 FetchStationPassengerData(FALSE, [kind |-> "not called"])
       ELSE /\ \E outcome \in SurveyOutcomes :
                 surveyFetch' = [key |-> TRUE, outcome |-> outcome]
            /\ UNCHANGED stationPassengerMap
  /\ UNCHANGED <<apiKey, params, pc, pageState, eventPromise, rejection,
                 effectPending, crashed, eventReq, eventRes, events, responseText,
                 imagePromise, stationImageUrl, apiVars, auxVars>>

\* passengerSurvey.ts:33-67  the survey request has ended and the map is
\* returned
SurveyReturn ==
  /\ ~IsNull(surveyFetch)
  /\ IsNull(stationPassengerMap)
  /\ stationPassengerMap' =
       FetchStationPassengerData(surveyFetch.key, surveyFetch.outcome)
  /\ UNCHANGED <<apiKey, params, pc, pageState, eventPromise, rejection,
                 effectPending, crashed, eventReq, eventRes, events, responseText,
                 imagePromise, stationImageUrl, apiVars, surveyFetch, auxVars>>

SurveyNext ==
  \/ SurveyCall
  \/ SurveyReturn

SurveySpec == Init /\ [][SurveyNext]_vars
\* ---------------------------------------------------------------- selector
\* The railway and station selector of the home page, in its two revisions:
\* the one that keeps a favorites ranking (part_007) and the one without
\* (RailwayAndStationSelector.tsx).  The variable selector holds the
\* component's state, stationRequests the requests to /api/stations that
\* have not answered, localStorage the stored favorites.

\* part_007:46  the number of favorites shown
MaxShown == 5

\* the searches made after the earlier visits
MaxSearches == 2

\* the requests to /api/stations in flight at once
MaxInFlight == 2

\* page.tsx (home):5, odpt.ts:13-36  the railway options the selector is
\* rendered with: the railways ODPT lists at the time of the visit
RailwayOptionLists ==
  {<<[value |-> "A", label |-> "a"], [value |-> "B", label |-> "b"]>>,
   <<[value |-> "A", label |-> "a"]>>}

\* part_005:4-25  the station options /api/stations answers with for a railway
StationListOf(railwayId) ==
  IF railwayId = "A"
  THEN <<[value |-> "A1", label |-> "a1"], [value |-> "A2", label |-> "a2"],
         [value |-> "A3", label |-> "a3"]>>
  ELSE <<[value |-> "B1", label |-> "b1"], [value |-> "B2", label |-> "b2"],
         [value |-> "B3", label |-> "b3"]>>

\* part_007:72-76  what a request to /api/stations ends with
StationAnswers(railwayId) ==
  {[kind |-> "rejects"], [kind |-> "not ok"],
   [kind |-> "ok", data |-> StationListOf(railwayId)]}

\* part_007:110-114, 133-135  options.find(o => o.value === value)?.label || ""
LabelOf(options, value) ==
  IF \E i \in DOMAIN options : options[i].value = value
  THEN options[CHOOSE i \in DOMAIN options :
                 /\ options[i].value = value
                 /\ \A j \in 1..(i - 1) : options[j].value # value].label
  ELSE ""

\* part_007:77-81  data.some(s => s.value === value)
HasStation(data, value) == \E i \in DOMAIN data : data[i].value = value

\* part_007:103-107  findIndex: the first entry of the pair, 0 when there is none
FindIndex(favs, railwayId, stationId) ==
  IF \E i \in DOMAIN favs : favs[i].railwayId = railwayId /\ favs[i].stationId = stationId
  THEN CHOOSE i \in DOMAIN favs :
         /\ favs[i].railwayId = railwayId /\ favs[i].stationId = stationId
         /\ \A j \in 1..(i - 1) :
              ~(favs[j].railwayId = railwayId /\ favs[j].stationId = stationId)
  ELSE 0

\* part_007:45  sort((a, b) => b.count - a.count): stable, larger counts first
RECURSIVE SortByCount(_)
SortByCount(favs) ==
  IF favs = <<>> THEN <<>>
  ELSE LET sorted == SortByCount(SubSeq(favs, 1, Len(favs) - 1))
           last == favs[Len(favs)]
           k == Cardinality({i \in DOMAIN sorted : sorted[i].count >= last.count})
       IN  SubSeq(sorted, 1, k) \o <<last>> \o SubSeq(sorted, k + 1, Len(sorted))

\* part_007:40-51  loadFavorites: the favorites shown after it ran
LoadFavorites(storage, favorites) ==
  IF storage.present
  THEN SubSeq(SortByCount(storage.items), 1, Min(MaxShown, Len(storage.items)))
  ELSE favorites

\* handleSearch without findIndex: every search pushes an entry
StoreSearchAlwaysPush(storage, sel) ==
  LET favs == IF storage.present THEN storage.items ELSE <<>>
  IN  [present |-> TRUE,
       items |-> Append(favs, [railwayId |-> sel.selectedRailway,
                               stationId |-> sel.selectedStation,
                               railwayLabel |-> LabelOf(sel.railwayOptions, sel.selectedRailway),
                               stationLabel |-> LabelOf(sel.stations, sel.selectedStation),
                               count |-> 1])]

\* part_007:100-126  the item handleSearch writes
StoreSearch(storage, sel) ==
  LET favs == IF storage.present THEN storage.items ELSE <<>>
      existingFavIndex == FindIndex(favs, sel.selectedRailway, sel.selectedStation)
      railwayLabel == LabelOf(sel.railwayOptions, sel.selectedRailway)
      stationLabel == LabelOf(sel.stations, sel.selectedStation)
  IN  [present |-> TRUE,
       items |-> IF existingFavIndex > 0
                 THEN [favs EXCEPT ![existingFavIndex].count = @ + 1]
                 ELSE IF railwayLabel # "" /\ stationLabel # ""
                      THEN Append(favs, [railwayId |-> sel.selectedRailway,
                                         stationId |-> sel.selectedStation,
                                         railwayLabel |-> railwayLabel,
                                         stationLabel |-> stationLabel,
                                         count |-> 1])
                      ELSE favs]

\* the sequence without its i-th element
RemoveAt(s, i) == SubSeq(s, 1, i - 1) \o SubSeq(s, i + 1, Len(s))

\* part_007:181-217  the station select and the search button are rendered
StationSelectShown ==
  /\ selector.mounted
  /\ selector.selectedRailway # ""
  /\ ~selector.isLoading
  /\ ~selector.error
  /\ selector.stations # <<>>

\* part_007:97-141  the searches of earlier visits to the home page, each
\* made with both railways listed and the railway's stations loaded
EarlierVisits ==
  <<[selectedRailway |-> "A", selectedStation |-> "A2"],
    [selectedRailway |-> "A", selectedStation |-> "A1"],
    [selectedRailway |-> "A", selectedStation |-> "A1"],
    [selectedRailway |-> "B", selectedStation |-> "B1"],
    [selectedRailway |-> "A", selectedStation |-> "A3"]>>

\* part_007:97-126  the item after the first k of the earlier searches
RECURSIVE StoreAfter(_)
StoreAfter(k) ==
  IF k = 0 THEN [present |-> FALSE, items |-> <<>>]
  ELSE StoreSearch(StoreAfter(k - 1),
                   [railwayOptions |-> <<[value |-> "A", label |-> "a"],
                                         [value |-> "B", label |-> "b"]>>,
                    stations |-> StationListOf(EarlierVisits[k].selectedRailway),
                    selectedRailway |-> EarlierVisits[k].selectedRailway,
                    selectedStation |-> EarlierVisits[k].selectedStation])

\* the item the earlier visits leave
EarlierFavorites == StoreAfter(Len(EarlierVisits))

\* the sum of the counts of the stored favorites
RECURSIVE CountSum(_)
CountSum(favs) ==
  IF favs = <<>> THEN 0 ELSE favs[1].count + CountSum(Tail(favs))

\* the searches made so far, those of the earlier visits not counted
SearchesMade ==
  IF Len(localStorage.items) >= Len(EarlierFavorites.items)
  THEN CountSum(localStorage.items) - CountSum(EarlierFavorites.items)
  ELSE CountSum(localStorage.items)

\* part_007:97-141  a browser that visited the home page before: its store
\* holds what the searches of those visits wrote
FavEarlierVisits ==
  /\ ~selector.mounted
  /\ ~localStorage.present
  /\ localStorage' = EarlierFavorites
  /\ UNCHANGED <<apiKey, params, pc, pageState, eventPromise, rejection,
                 effectPending, crashed, eventReq, eventRes, events, responseText,
                 imagePromise, stationImageUrl, apiVars, surveyVars, selector,
                 stationRequests, barPage, reloadVars>>

\* part_007:27-38, 53-55  the home page is visited: the selector is rendered
\* and its mount effects run (loadFavorites; no railway, so no request)
FavMount ==
  /\ ~selector.mounted
  /\ \E options \in RailwayOptionLists :
       selector' = [mounted |-> TRUE,
                    railwayOptions |-> options,
                    favorites |-> LoadFavorites(localStorage, <<>>),
                    selectedRailway |-> "",
                    selectedStation |-> "",
                    stations |-> <<>>,
                    isLoading |-> FALSE,
                    error |-> FALSE]
  /\ stationRequests' = <<>>
  /\ UNCHANGED <<apiKey, params, pc, pageState, eventPromise, rejection,
                 effectPending, crashed, eventReq, eventRes, events, responseText,
                 imagePromise, stationImageUrl, apiVars, surveyVars, localStorage, barPage, reloadVars>>

\* part_007:62-95, 174-178  another railway is chosen: the effect asks for
\* its stations
FavSelectRailway ==
  /\ selector.mounted
  /\ Len(stationRequests) < MaxInFlight
  /\ \E i \in DOMAIN selector.railwayOptions :
       /\ selector.railwayOptions[i].value # selector.selectedRailway
       /\ selector' = [selector EXCEPT
                         !.selectedRailway = selector.railwayOptions[i].value,
                         !.isLoading = TRUE,
                         !.error = FALSE]
       /\ stationRequests' = Append(stationRequests, selector.railwayOptions[i].value)
  /\ UNCHANGED <<apiKey, params, pc, pageState, eventPromise, rejection,
                 effectPending, crashed, eventReq, eventRes, events, responseText,
                 imagePromise, stationImageUrl, apiVars, surveyVars, localStorage, barPage, reloadVars>>

\* part_007:57-60, 62-95  a favorite is clicked: railway and station are set,
\* and the effect asks for the stations when the railway changed
FavClick ==
  /\ selector.mounted
  /\ \E i \in DOMAIN selector.favorites :
       LET favorite == selector.favorites[i]
       IN  IF favorite.railwayId = selector.selectedRailway
           THEN /\ selector' = [selector EXCEPT !.selectedStation = favorite.stationId]
                /\ UNCHANGED stationRequests
           ELSE /\ Len(stationRequests) < MaxInFlight
                /\ selector' = [selector EXCEPT
                                  !.selectedRailway = favorite.railwayId,
                                  !.selectedStation = favorite.stationId,
                                  !.isLoading = TRUE,
                                  !.error = FALSE]
                /\ stationRequests' = Append(stationRequests, favorite.railwayId)
  /\ UNCHANGED <<apiKey, params, pc, pageState, eventPromise, rejection,
                 effectPending, crashed, eventReq, eventRes, events, responseText,
                 imagePromise, stationImageUrl, apiVars, surveyVars, localStorage, barPage, reloadVars>>

\* part_007:70-92  a request to /api/stations ends: the stations are set and
\* the selected station is kept when the list has it; a failure sets the error
FavStationsAnswer ==
  /\ selector.mounted
  /\ \E i \in DOMAIN stationRequests :
       \E answer \in StationAnswers(stationRequests[i]) :
         /\ selector' =
              IF answer.kind = "ok"
              THEN [selector EXCEPT
                      !.stations = answer.data,
                      !.selectedStation =
                         IF HasStation(answer.data, @) THEN @ ELSE "",
                      !.isLoading = FALSE]
              ELSE [selector EXCEPT !.error = TRUE, !.isLoading = FALSE]
         /\ stationRequests' = RemoveAt(stationRequests, i)
  /\ UNCHANGED <<apiKey, params, pc, pageState, eventPromise, rejection,
                 effectPending, crashed, eventReq, eventRes, events, responseText,
                 imagePromise, stationImageUrl, apiVars, surveyVars, localStorage, barPage, reloadVars>>

\* part_007:189-202  a station of the list is chosen
FavSelectStation ==
  /\ StationSelectShown
  /\ \E i \in DOMAIN selector.stations :
       /\ selector.stations[i].value # selector.selectedStation
       /\ selector' = [selector EXCEPT !.selectedStation = selector.stations[i].value]
  /\ UNCHANGED <<apiKey, params, pc, pageState, eventPromise, rejection,
                 effectPending, crashed, eventReq, eventRes, events, responseText,
                 imagePromise, stationImageUrl, apiVars, surveyVars, stationRequests,
                 localStorage, barPage, reloadVars>>

\* part_007:97-141, 210-214  the search button is pressed: the store is
\* written, the favorites are loaded again, and with a station name the
\* router leaves the home page
FavSearch ==
  /\ StationSelectShown
  /\ selector.selectedStation # ""
  /\ SearchesMade < MaxSearches
  /\ localStorage' = StoreSearch(localStorage, selector)
  /\ LET stationName == LabelOf(selector.stations, selector.selectedStation)
     IN  IF stationName # ""
         THEN /\ selector' = [mounted |-> FALSE, pushed |-> stationName]
              /\ stationRequests' = <<>>
         ELSE /\ selector' = [selector EXCEPT
                                !.favorites = LoadFavorites(localStorage', @)]
              /\ UNCHANGED stationRequests
  /\ UNCHANGED <<apiKey, params, pc, pageState, eventPromise, rejection,
                 effectPending, crashed, eventReq, eventRes, events, responseText,
                 imagePromise, stationImageUrl, apiVars, surveyVars, barPage, reloadVars>>

FavNext ==
  \/ FavEarlierVisits
  \/ FavMount
  \/ FavSelectRailway
  \/ FavClick
  \/ FavStationsAnswer
  \/ FavSelectStation
  \/ FavSearch

FavSpec == Init /\ [][FavNext]_vars

\* RailwayAndStationSelector.tsx:15-19  the selector without favorites is
\* rendered; its effect finds no railway and asks for nothing
SelectorMount ==
  /\ ~selector.mounted
  /\ \E options \in RailwayOptionLists :
       selector' = [mounted |-> TRUE,
                    railwayOptions |-> options,
                    selectedRailway |-> "",
                    selectedStation |-> "",
                    stations |-> <<>>,
                    isLoading |-> FALSE,
                    error |-> FALSE]
  /\ stationRequests' = <<>>
  /\ UNCHANGED <<apiKey, params, pc, pageState, eventPromise, rejection,
                 effectPending, crashed, eventReq, eventRes, events, responseText,
                 imagePromise, stationImageUrl, apiVars, surveyVars, localStorage, barPage, reloadVars>>

\* RailwayAndStationSelector.tsx:69-96  another railway is chosen: the effect
\* asks for its stations; a request already in flight is left running
SelectRailway ==
  /\ selector.mounted
  /\ Len(stationRequests) < MaxInFlight
  /\ \E i \in DOMAIN selector.railwayOptions :
       /\ selector.railwayOptions[i].value # selector.selectedRailway
       /\ selector' = [selector EXCEPT
                         !.selectedRailway = selector.railwayOptions[i].value,
                         !.isLoading = TRUE,
                         !.error = FALSE]
       /\ stationRequests' = Append(stationRequests, selector.railwayOptions[i].value)
  /\ UNCHANGED <<apiKey, params, pc, pageState, eventPromise, rejection,
                 effectPending, crashed, eventReq, eventRes, events, responseText,
                 imagePromise, stationImageUrl, apiVars, surveyVars, localStorage, barPage, reloadVars>>

\* RailwayAndStationSelector.tsx:79-92  a request to /api/stations ends,
\* whichever railway is selected by then: the stations are set and the
\* selection is reset, or the error is set
SelectorStationsAnswer ==
  /\ selector.mounted
  /\ \E i \in DOMAIN stationRequests :
       \E answer \in StationAnswers(stationRequests[i]) :
         /\ selector' =
              IF answer.kind = "ok"
              THEN [selector EXCEPT
                      !.stations = answer.data,
                      !.selectedStation = "",
                      !.isLoading = FALSE]
              ELSE [selector EXCEPT !.error = TRUE, !.isLoading = FALSE]
         /\ stationRequests' = RemoveAt(stationRequests, i)
  /\ UNCHANGED <<apiKey, params, pc, pageState, eventPromise, rejection,
                 effectPending, crashed, eventReq, eventRes, events, responseText,
                 imagePromise, stationImageUrl, apiVars, surveyVars, localStorage, barPage, reloadVars>>

\* RailwayAndStationSelector.tsx:192-201  a station of the list is chosen
SelectStation ==
  /\ StationSelectShown
  /\ \E i \in DOMAIN selector.stations :
       /\ selector.stations[i].value # selector.selectedStation
       /\ selector' = [selector EXCEPT !.selectedStation = selector.stations[i].value]
  /\ UNCHANGED <<apiKey, params, pc, pageState, eventPromise, rejection,
                 effectPending, crashed, eventReq, eventRes, events, responseText,
                 imagePromise, stationImageUrl, apiVars, surveyVars, stationRequests,
                 localStorage, barPage, reloadVars>>

\* RailwayAndStationSelector.tsx:98-110  handleSearch: with the name of the
\* selected station the router leaves the home page
HandleSearch ==
  /\ StationSelectShown
  /\ selector.selectedStation # ""
  /\ LET stationName == LabelOf(selector.stations, selector.selectedStation)
     IN  IF stationName # ""
         THEN /\ selector' = [mounted |-> FALSE, pushed |-> stationName]
              /\ stationRequests' = <<>>
         ELSE UNCHANGED <<selector, stationRequests>>
  /\ UNCHANGED <<apiKey, params, pc, pageState, eventPromise, rejection,
                 effectPending, crashed, eventReq, eventRes, events, responseText,
                 imagePromise, stationImageUrl, apiVars, surveyVars, localStorage, barPage, reloadVars>>

SelectorNext ==
  \/ SelectorMount
  \/ SelectRailway
  \/ SelectorStationsAnswer
  \/ SelectStation
  \/ HandleSearch

SelectorSpec == Init /\ [][SelectorNext]_vars

\* ---------------------------------------------------------------- progress bar
\* The venues page in the revision that shows a progress bar (part_004).
\* barPage holds its state: venueData is whether the venues were set,
\* eventData is "null", "empty" or "events".

\* part_004:142-152  what the venue search ends with: a failure, or venues
\* (some or none) with or without coordinates
BarVenueOutcomes ==
  {[ok |-> FALSE, venues |-> FALSE, coordinates |-> FALSE]}
  \cup {[ok |-> TRUE, venues |-> v, coordinates |-> c] : v \in BOOLEAN, c \in BOOLEAN}

\* part_004:171-197  what the request to /api/events ends with
BarEventOutcomes ==
  {[ok |-> FALSE, congested |-> FALSE]}
  \cup {[ok |-> TRUE, congested |-> c] : c \in BOOLEAN}

\* part_004:307-314  the catch block of fetchAllData
BarCatch(page, message) ==
  [page EXCEPT !.error = message,
               !.progress = 100,
               !.progressMessage = "error",
               !.pc = "finally"]

\* part_004:121-141  the effect of the first render: without station or date
\* the error; otherwise the reset, progress 10 and the venue search
BarMount ==
  /\ barPage.pc = "mount"
  /\ barPage' =
       IF ~params
       THEN [barPage EXCEPT !.error = "missing parameters",
                            !.isLoading = FALSE,
                            !.pc = "done"]
       ELSE [barPage EXCEPT !.progress = 10,
                            !.progressMessage = "searching venues",
                            !.pc = "venues"]
  /\ UNCHANGED <<apiKey, params, pc, pageState, eventPromise, rejection,
                 effectPending, crashed, eventReq, eventRes, events, responseText,
                 imagePromise, stationImageUrl, apiVars, surveyVars, selectorVars,
                 reloadVars>>

\* part_004:142-201  the venue search ends: a failure is caught; otherwise
\* progress 30 and both tasks start, the event task finishing at once (+60)
\* without venues and the image task at once (+10) without coordinates
BarVenueResponse ==
  /\ barPage.pc = "venues"
  /\ \E outcome \in BarVenueOutcomes :
       barPage' =
         IF ~outcome.ok THEN BarCatch(barPage, "venue search failed")
         ELSE [barPage EXCEPT
                 !.venueData = TRUE,
                 !.progressMessage = "analysing events",
                 !.eventData = IF outcome.venues THEN @ ELSE "empty",
                 !.eventPromise = IF outcome.venues THEN "pending" ELSE "fulfilled",
                 !.imagePromise = IF outcome.coordinates THEN "geo" ELSE "fulfilled",
                 !.progress = 30 + (IF outcome.venues THEN 0 ELSE 60)
                                 + (IF outcome.coordinates THEN 0 ELSE 10),
                 !.pc = "tasks"]
  /\ UNCHANGED <<apiKey, params, pc, pageState, eventPromise, rejection,
                 effectPending, crashed, eventReq, eventRes, events, responseText,
                 imagePromise, stationImageUrl, apiVars, surveyVars, selectorVars,
                 reloadVars>>

\* part_004:171-197  the request to /api/events ends: the events are set and
\* the progress grows by 60, or the event task rejects
BarEventResponse ==
  /\ barPage.eventPromise = "pending"
  /\ \E outcome \in BarEventOutcomes :
       barPage' =
         IF outcome.ok
         THEN [barPage EXCEPT !.eventData = "events",
                              !.hasCongestedEvents = outcome.congested,
                              !.progress = @ + 60,
                              !.eventPromise = "fulfilled"]
         ELSE [barPage EXCEPT !.eventPromise = "rejected"]
  /\ UNCHANGED <<apiKey, params, pc, pageState, eventPromise, rejection,
                 effectPending, crashed, eventReq, eventRes, events, responseText,
                 imagePromise, stationImageUrl, apiVars, surveyVars, selectorVars,
                 reloadVars>>

\* part_004:220-268  the geosearch ends, whatever its answer: the image task
\* asks for the page image
BarGeoSearchResponse ==
  /\ barPage.imagePromise = "geo"
  /\ \E geo \in GeoOutcomes :
       barPage' = [barPage EXCEPT !.imagePromise = "img"]
  /\ UNCHANGED <<apiKey, params, pc, pageState, eventPromise, rejection,
                 effectPending, crashed, eventReq, eventRes, events, responseText,
                 imagePromise, stationImageUrl, apiVars, surveyVars, selectorVars,
                 reloadVars>>

\* part_004:281-298  the page image request ends: a thumbnail is set, and the
\* progress grows by 10 whatever the page has become by then
BarImageResponse ==
  /\ barPage.imagePromise = "img"
  /\ \E img \in ImageOutcomes :
       barPage' = [barPage EXCEPT
                     !.stationImageUrl = IF Thumbnail(img) THEN "thumbnail.source" ELSE @,
                     !.progress = @ + 10,
                     !.imagePromise = "fulfilled"]
  /\ UNCHANGED <<apiKey, params, pc, pageState, eventPromise, rejection,
                 effectPending, crashed, eventReq, eventRes, events, responseText,
                 imagePromise, stationImageUrl, apiVars, surveyVars, selectorVars,
                 reloadVars>>

\* part_004:301-314  Promise.all settles: it rejects as soon as the event task
\* has rejected, the image task running or not, and fulfils when both have
BarJoin ==
  /\ barPage.pc = "tasks"
  /\ IF barPage.eventPromise = "rejected" THEN TRUE
     ELSE barPage.eventPromise = "fulfilled" /\ barPage.imagePromise = "fulfilled"
  /\ barPage' =
       IF barPage.eventPromise = "rejected"
       THEN BarCatch(barPage, "event retrieval failed")
       ELSE [barPage EXCEPT !.progressMessage = "done",
                            !.progress = 100,
                            !.pc = "finally"]
  /\ UNCHANGED <<apiKey, params, pc, pageState, eventPromise, rejection,
                 effectPending, crashed, eventReq, eventRes, events, responseText,
                 imagePromise, stationImageUrl, apiVars, surveyVars, selectorVars,
                 reloadVars>>

\* part_004:315-320  the timer of the finally block fires
BarTimer ==
  /\ barPage.pc = "finally"
  /\ barPage' = [barPage EXCEPT !.isLoading = FALSE, !.pc = "done"]
  /\ UNCHANGED <<apiKey, params, pc, pageState, eventPromise, rejection,
                 effectPending, crashed, eventReq, eventRes, events, responseText,
                 imagePromise, stationImageUrl, apiVars, surveyVars, selectorVars,
                 reloadVars>>

BarNext ==
  \/ BarMount
  \/ BarVenueResponse
  \/ BarEventResponse
  \/ BarGeoSearchResponse
  \/ BarImageResponse
  \/ BarJoin
  \/ BarTimer

BarSpec == Init /\ [][BarNext]_vars

\* ---------------------------------------------------------------- reload
\* The venues page when stationName or date changes while it is shown: the
\* fetch effect runs again (page.tsx:276) and nothing stops the run before.
\* loads holds the runs of fetchAllData, the k-th for the k-th (stationName,
\* date); loadPage holds for every piece of page state the number of the run
\* whose value it is, 0 for the reset value.

\* the (stationName, date) pairs the page is shown with, one after the other
MaxLoads == 2

\* page.tsx:116-127  the venue search of a run answers with venues or fails
LoadVenueOutcomes == {"ok", "fails"}

\* page.tsx:141-160  the event request of a run is answered or fails
LoadEventOutcomes == {"ok", "fails"}

\* page.tsx:97-116, 276  stationName and date are set or change: the effect
\* runs fetchAllData, which resets the page state and asks for the venues
LoadStart ==
  /\ Len(loads) < MaxLoads
  /\ loads' = Append(loads, [pc |-> "venue", eventPromise |-> "none",
                             imagePromise |-> "none", venue |-> "pending",
                             event |-> "pending", image |-> FALSE])
  /\ loadPage' = [venueData |-> 0, eventData |-> 0, groupedEvents |-> 0,
                  stationImageUrl |-> 0, error |-> 0, isLoading |-> TRUE]
  /\ UNCHANGED <<apiKey, params, pc, pageState, eventPromise, rejection,
                 effectPending, crashed, eventReq, eventRes, events, responseText,
                 imagePromise, stationImageUrl, apiVars, surveyVars, selectorVars,
                 barPage>>

\* page.tsx:116-190, 260-266  the venue search of the run k ends: a failure is
\* caught and becomes the error; otherwise the venues are set and the two
\* tasks of the run start
LoadVenueResponse ==
  /\ \E k \in DOMAIN loads :
       /\ loads[k].pc = "venue"
       /\ \E outcome \in LoadVenueOutcomes :
            IF outcome = "fails"
            THEN /\ loads' = [loads EXCEPT ![k].pc = "timer", ![k].venue = "fails"]
                 /\ loadPage' = [loadPage EXCEPT !.error = k]
            ELSE /\ loads' = [loads EXCEPT ![k].pc = "join",
                                           ![k].venue = "ok",
                                           ![k].eventPromise = "pending",
                                           ![k].imagePromise = "geo"]
                 /\ loadPage' = [loadPage EXCEPT !.venueData = k]
  /\ UNCHANGED <<apiKey, params, pc, pageState, eventPromise, rejection,
                 effectPending, crashed, eventReq, eventRes, events, responseText,
                 imagePromise, stationImageUrl, apiVars, surveyVars, selectorVars,
                 barPage>>

\* page.tsx:141-166, 279-335  the event request of the run k ends: the events
\* are set and the grouping effect groups them, or the event task rejects
LoadEventResponse ==
  /\ \E k \in DOMAIN loads :
       /\ loads[k].eventPromise = "pending"
       /\ \E outcome \in LoadEventOutcomes :
            IF outcome = "ok"
            THEN /\ loads' = [loads EXCEPT ![k].eventPromise = "fulfilled",
                                           ![k].event = "ok"]
                 /\ loadPage' = [loadPage EXCEPT !.eventData = k, !.groupedEvents = k]
            ELSE /\ loads' = [loads EXCEPT ![k].eventPromise = "rejected",
                                           ![k].event = "fails"]
                 /\ UNCHANGED loadPage
  /\ UNCHANGED <<apiKey, params, pc, pageState, eventPromise, rejection,
                 effectPending, crashed, eventReq, eventRes, events, responseText,
                 imagePromise, stationImageUrl, apiVars, surveyVars, selectorVars,
                 barPage>>

\* page.tsx:189-229  the geosearch of the run k ends: with a station page the
\* page image is asked for, without one the image task is done
LoadGeoSearchResponse ==
  /\ \E k \in DOMAIN loads :
       /\ loads[k].imagePromise = "geo"
       /\ \E geo \in GeoOutcomes :
            loads' = [loads EXCEPT ![k].imagePromise =
                                      IF StationPageTitle(geo) THEN "img" ELSE "fulfilled"]
  /\ UNCHANGED <<apiKey, params, pc, pageState, eventPromise, rejection,
                 effectPending, crashed, eventReq, eventRes, events, responseText,
                 imagePromise, stationImageUrl, apiVars, surveyVars, selectorVars,
                 barPage, loadPage>>

\* page.tsx:240-254  the page-image request of the run k ends: a thumbnail
\* becomes the station image
LoadImageResponse ==
  /\ \E k \in DOMAIN loads :
       /\ loads[k].imagePromise = "img"
       /\ \E img \in ImageOutcomes :
            /\ loads' = [loads EXCEPT ![k].imagePromise = "fulfilled",
                                      ![k].image = Thumbnail(img)]
            /\ loadPage' = [loadPage EXCEPT
                              !.stationImageUrl = IF Thumbnail(img) THEN k ELSE @]
  /\ UNCHANGED <<apiKey, params, pc, pageState, eventPromise, rejection,
                 effectPending, crashed, eventReq, eventRes, events, responseText,
                 imagePromise, stationImageUrl, apiVars, surveyVars, selectorVars,
                 barPage>>

\* page.tsx:258-266  Promise.all of the run k settles: a rejection of the
\* event task becomes the error
LoadJoin ==
  /\ \E k \in DOMAIN loads :
       /\ loads[k].pc = "join"
       /\ IF loads[k].eventPromise = "rejected" THEN TRUE
          ELSE loads[k].eventPromise = "fulfilled" /\ loads[k].imagePromise = "fulfilled"
       /\ loads' = [loads EXCEPT ![k].pc = "timer"]
       /\ loadPage' = [loadPage EXCEPT
                         !.error = IF loads[k].eventPromise = "rejected" THEN k ELSE @]
  /\ UNCHANGED <<apiKey, params, pc, pageState, eventPromise, rejection,
                 effectPending, crashed, eventReq, eventRes, events, responseText,
                 imagePromise, stationImageUrl, apiVars, surveyVars, selectorVars,
                 barPage>>

\* page.tsx:267-272  the timer of the run k fires
LoadTimer ==
  /\ \E k \in DOMAIN loads :
       /\ loads[k].pc = "timer"
       /\ loads' = [loads EXCEPT ![k].pc = "done"]
       /\ loadPage' = [loadPage EXCEPT !.isLoading = FALSE]
  /\ UNCHANGED <<apiKey, params, pc, pageState, eventPromise, rejection,
                 effectPending, crashed, eventReq, eventRes, events, responseText,
                 imagePromise, stationImageUrl, apiVars, surveyVars, selectorVars,
                 barPage>>

ReloadNext ==
  \/ LoadStart
  \/ LoadVenueResponse
  \/ LoadEventResponse
  \/ LoadGeoSearchResponse
  \/ LoadImageResponse
  \/ LoadJoin
  \/ LoadTimer

ReloadSpec == Init /\ [][ReloadNext]_vars

\* ================================================================ claims
\* the grouping effect has run on the event list the page holds
GroupingDone ==
  /\ ~IsNull(eventData)
  /\ eventData.isArray
  /\ ~effectPending
  /\ ~crashed

\* the window of a tuple or of a group
WindowOf(r) == <<r.start_hour, r.end_hour, r.label>>

\* the tuples of the page's event list that pass the threshold, in the order
\* they are encountered
PassedTuples == FilteredEvents(FlatEvents(eventData.items))

\* the tuples the reducer scans
SortedTuples == SortEvents(PassedTuples)

\* the tuples of a list of groups, group after group
TuplesOf(groups) ==
  Concat([g \in DOMAIN groups |->
            [m \in DOMAIN groups[g].events |->
               [start_hour |-> groups[g].start_hour,
                end_hour   |-> groups[g].end_hour,
                label      |-> groups[g].label,
                venue_name |-> groups[g].events[m].venue_name,
                event_name |-> groups[g].events[m].event_name,
                scale      |-> groups[g].events[m].scale]]])

\* ---------------------------------------------------------------- C1
\* the merge rule as the claim words it: what one scanned tuple t makes of
\* the groups emitted so far
C1_Rule(acc, t) ==
  IF acc # <<>> /\ WindowOf(acc[Len(acc)]) = WindowOf(t)
  THEN [k \in 1..Len(acc) |->
          IF k < Len(acc) THEN acc[k]
          ELSE [start_hour |-> acc[k].start_hour,
                end_hour   |-> acc[k].end_hour,
                label      |-> acc[k].label,
                events     |-> acc[k].events \o
                                 <<[venue_name |-> t.venue_name,
                                    event_name |-> t.event_name,
                                    scale |-> t.scale]>>,
                totalScale |-> IF acc[k].totalScale + t.scale < 10
                               THEN acc[k].totalScale + t.scale ELSE 10,
                eventCount |-> acc[k].eventCount + 1]]
  ELSE acc \o <<[start_hour |-> t.start_hour,
                 end_hour   |-> t.end_hour,
                 label      |-> t.label,
                 events     |-> <<[venue_name |-> t.venue_name,
                                   event_name |-> t.event_name,
                                   scale |-> t.scale]>>,
                 totalScale |-> t.scale,
                 eventCount |-> 1]>>

RECURSIVE C1_Scan(_, _)
C1_Scan(tuples, k) ==
  IF k = 0 THEN <<>> ELSE C1_Rule(C1_Scan(tuples, k - 1), tuples[k])

\* the scanned tuples are two scale-6 events sharing the window (19,21,before)
C1_Example ==
  /\ Len(SortedTuples) = 2
  /\ \A k \in 1..2 :
        /\ SortedTuples[k].scale = 6
        /\ WindowOf(SortedTuples[k]) = <<19, 21, "before">>
  /\ SortedTuples[1].event_name # SortedTuples[2].event_name
       \/ SortedTuples[1].venue_name # SortedTuples[2].venue_name

\* C1: scanning the filtered, sorted tuples, a tuple whose window equals the
\* window of the last emitted group joins that group (total = min(10, total
\* + scale), member count + 1) and any other tuple opens a group (total =
\* scale, member count 1); two scale-6 events sharing (19,21,before) give
\* one group of total 10 and member count 2.
C1_MergeRule ==
  GroupingDone =>
    /\ groupedEvents = C1_Scan(SortedTuples, Len(SortedTuples))
    /\ C1_Example =>
         /\ Len(groupedEvents) = 1
         /\ groupedEvents[1].totalScale = 10
         /\ groupedEvents[1].eventCount = 2

C1_Witness ==
  /\ GroupingDone
  /\ C1_Example
  /\ Len(groupedEvents) = 1
  /\ groupedEvents[1].totalScale = 10
  /\ groupedEvents[1].eventCount = 2

\* ---------------------------------------------------------------- C2
\* the tuples of a list that start at hour h, in their order
StartingAt(tuples, h) == SelectSeq(tuples, LAMBDA t : t.start_hour = h)

\* C2: the groups are in ascending order of start_hour, and the tuples of
\* one start_hour keep, through the groups, the order in which they were
\* encountered in the event list (facility, then event, then window).
C2_StableOrder ==
  GroupingDone =>
    /\ \A i, j \in DOMAIN groupedEvents :
          i < j => groupedEvents[i].start_hour <= groupedEvents[j].start_hour
    /\ \A h \in {p.start_hour : p \in Predictions} :
          StartingAt(TuplesOf(groupedEvents), h) = StartingAt(PassedTuples, h)

\* a tuple encountered later starts earlier and is moved to the front, and
\* the two tuples of hour 19, of different windows, keep their order
C2_Witness ==
  /\ GroupingDone
  /\ Len(PassedTuples) = 3
  /\ PassedTuples[1].start_hour = 19
  /\ PassedTuples[2].start_hour = 17
  /\ PassedTuples[3].start_hour = 19
  /\ WindowOf(PassedTuples[1]) # WindowOf(PassedTuples[3])
  /\ Len(groupedEvents) = 3
  /\ WindowOf(groupedEvents[1]) = WindowOf(PassedTuples[2])
  /\ WindowOf(groupedEvents[2]) = WindowOf(PassedTuples[1])
  /\ WindowOf(groupedEvents[3]) = WindowOf(PassedTuples[3])

\* ---------------------------------------------------------------- C3
\* the group that holds the k-th scanned tuple
RECURSIVE C3_GroupOf(_, _, _)
C3_GroupOf(groups, g, k) ==
  IF g = Len(groups) \/ k <= groups[g].eventCount THEN g
  ELSE C3_GroupOf(groups, g + 1, k - groups[g].eventCount)

\* C3: merging is adjacent-only: the groups hold the scanned tuples in scan
\* order, so that two scanned tuples of one window that are separated by a
\* tuple of another window are in two distinct groups, and no two
\* consecutive groups have the same window.
C3_AdjacentOnly ==
  GroupingDone =>
    /\ TuplesOf(groupedEvents) = SortedTuples
    /\ \A g \in DOMAIN groupedEvents :
          groupedEvents[g].eventCount = Len(groupedEvents[g].events)
    /\ \A g \in 1..(Len(groupedEvents) - 1) :
          WindowOf(groupedEvents[g]) # WindowOf(groupedEvents[g + 1])
    /\ \A i, k, j \in DOMAIN SortedTuples :
          (/\ i < k
           /\ k < j
           /\ WindowOf(SortedTuples[i]) = WindowOf(SortedTuples[j])
           /\ WindowOf(SortedTuples[i]) # WindowOf(SortedTuples[k]))
          => C3_GroupOf(groupedEvents, 1, i) # C3_GroupOf(groupedEvents, 1, j)

\* two groups that are not consecutive share a window
C3_Witness ==
  /\ GroupingDone
  /\ Len(groupedEvents) = 3
  /\ WindowOf(groupedEvents[1]) = WindowOf(groupedEvents[3])
  /\ WindowOf(groupedEvents[1]) # WindowOf(groupedEvents[2])
  /\ groupedEvents[1].start_hour = groupedEvents[2].start_hour
\* ---------------------------------------------------------------- C4
\* the events of a list of facilities
EventsOf(list) ==
  Concat([i \in DOMAIN list |-> IF HasEvents(list[i]) THEN list[i].events ELSE <<>>])

\* C4: the scale of every event the page holds is in 1..10, and so is the
\* total of every group.
C4_ScaleRange ==
  /\ (~IsNull(eventData) /\ eventData.isArray) =>
        \A e \in DOMAIN EventsOf(eventData.items) :
           EventsOf(eventData.items)[e].scale \in 1..10
  /\ \A g \in DOMAIN groupedEvents : groupedEvents[g].totalScale \in 1..10

\* ---------------------------------------------------------------- C5
RECURSIVE C5_Sum(_)
C5_Sum(numbers) ==
  IF numbers = <<>> THEN 0 ELSE Head(numbers) + C5_Sum(Tail(numbers))

\* the predictions of the events of scale 5 and more, counted on the event
\* list itself
C5_PassingCount ==
  C5_Sum([e \in DOMAIN EventsOf(eventData.items) |->
            IF EventsOf(eventData.items)[e].scale >= 5
            THEN Len(EventsOf(eventData.items)[e].congestion_predictions)
            ELSE 0])

\* the saturating sum of the scales of the members of a group
RECURSIVE C5_Total(_, _)
C5_Total(members, k) ==
  IF k = 1 THEN members[1].scale
  ELSE IF C5_Total(members, k - 1) + members[k].scale > 10 THEN 10
  ELSE C5_Total(members, k - 1) + members[k].scale

\* C5: no member of a group has a scale below 5, and the events of scale
\* below 5 add nothing to any member count or total: the member counts sum
\* to the number of predictions of the events of scale 5 and more, and each
\* total is the saturating sum of the scales of the group's own members.
C5_Threshold ==
  GroupingDone =>
    /\ \A g \in DOMAIN groupedEvents :
          /\ \A m \in DOMAIN groupedEvents[g].events :
                groupedEvents[g].events[m].scale >= 5
          /\ groupedEvents[g].totalScale =
                C5_Total(groupedEvents[g].events, Len(groupedEvents[g].events))
    /\ C5_Sum([g \in DOMAIN groupedEvents |-> groupedEvents[g].eventCount])
          = C5_PassingCount

\* an event below the threshold was dropped next to one that was kept
C5_Witness ==
  /\ GroupingDone
  /\ Len(groupedEvents) > 0
  /\ \E e \in DOMAIN EventsOf(eventData.items) :
        /\ EventsOf(eventData.items)[e].scale < 5
        /\ Len(EventsOf(eventData.items)[e].congestion_predictions) > 0
  /\ Len(TuplesOf(groupedEvents)) < Len(FlatEvents(eventData.items))

\* ---------------------------------------------------------------- C6
\* the page holds an event list of the declared type whose events are all
\* below the threshold (or which has no event)
C6_NothingSignificant ==
  /\ ~IsNull(eventData)
  /\ eventData.isArray
  /\ Typed(eventData.items)
  /\ \A e \in DOMAIN EventsOf(eventData.items) :
        EventsOf(eventData.items)[e].scale < 5

\* C6: with an event list that is empty or whose events are all below the
\* threshold, the aggregation returns no group and the finished page shows
\* the "no congestion" message and no error; with no venue the event list
\* is empty and no event request is issued.
C6_NoCongestion ==
  /\ (GroupingDone /\ C6_NothingSignificant) => groupedEvents = <<>>
  /\ (Settled /\ C6_NothingSignificant) =>
        /\ error = NoError
        /\ Rendered = "no congestion"
  /\ (~IsNull(venueData) /\ Len(venueData.Feature) = 0) =>
        /\ IsNull(eventReq)
        /\ IsNull(eventRes)
        /\ IsNull(events)
        /\ eventData = [isArray |-> TRUE, items |-> <<>>]

\* the finished page shows "no congestion" for events that have congestion
\* predictions and are all below the threshold
C6_Witness ==
  /\ Settled
  /\ C6_NothingSignificant
  /\ Len(FlatEvents(eventData.items)) > 0
  /\ Rendered = "no congestion"

\* ---------------------------------------------------------------- C8
\* the upstream answer has a facility entry without `events`
C8_FacilityWithoutEvents ==
  /\ ~IsNull(events)
  /\ \/ ~events.isArray /\ ~HasEvents(events.obj)
     \/ events.isArray /\ \E i \in DOMAIN events.items : ~HasEvents(events.items[i])

\* C8: a facility entry without `events` becomes a facility with an empty
\* event list (it is kept, with `events`), and neither the congested-event
\* check nor the aggregation fails on it.
C8_MissingEventsTolerated ==
  C8_FacilityWithoutEvents =>
    /\ ~IsNull(eventRes) =>
          /\ eventRes.status = 200
          /\ Len(eventRes.body.items) = (IF events.isArray THEN Len(events.items) ELSE 1)
          /\ \A i \in DOMAIN eventRes.body.items : HasEvents(eventRes.body.items[i])
    /\ ~IsNull(eventData) =>
          \A i \in DOMAIN eventData.items : HasEvents(eventData.items[i])
    /\ rejection # "TypeError"
    /\ ~crashed

\* ---------------------------------------------------------------- C9
\* the upstream answer has an event without `congestion_predictions`
C9_EventWithoutPredictions ==
  /\ ~IsNull(events)
  /\ LET list == IF events.isArray THEN events.items ELSE <<events.obj>>
     IN  \E e \in DOMAIN EventsOf(list) : ~HasPredictions(EventsOf(list)[e])

\* C9: an event without congestion predictions becomes an event with an
\* empty prediction list, and the aggregation completes.
C9_MissingPredictionsTolerated ==
  C9_EventWithoutPredictions =>
    /\ ~IsNull(eventRes) =>
          /\ eventRes.status = 200
          /\ \A e \in DOMAIN EventsOf(eventRes.body.items) :
                HasPredictions(EventsOf(eventRes.body.items)[e])
    /\ ~IsNull(eventData) =>
          \A e \in DOMAIN EventsOf(eventData.items) :
             HasPredictions(EventsOf(eventData.items)[e])
    /\ ~crashed

\* ---------------------------------------------------------------- C10
\* C10: a successful event response carries a list: the parsed value itself
\* when it is a list, and the one-element list of the parsed value when it
\* is a single object.
C10_AlwaysList ==
  (~IsNull(eventRes) /\ eventRes.status = 200) =>
    /\ eventRes.body.isArray
    /\ events.isArray => eventRes.body = events
    /\ ~events.isArray => eventRes.body.items = <<events.obj>>

\* a single object was answered and the response is a list
C10_Witness ==
  /\ ~IsNull(eventRes)
  /\ eventRes.status = 200
  /\ ~IsNull(events)
  /\ ~events.isArray
  /\ eventRes.body.isArray

\* ---------------------------------------------------------------- C11
\* the text the upstream model answered is blank or is not JSON
C11_NoPayload == responseText \in {"blank", "garbage"}

\* C11 as claimed: with an empty or unparsable payload the endpoint returns
\* an empty event list and the finished page shows the "no congestion"
\* outcome without an error.
C11_EmptyResult ==
  C11_NoPayload =>
    /\ ~IsNull(eventRes) =>
          /\ eventRes.status = 200
          /\ eventRes.body = [isArray |-> TRUE, items |-> <<>>]
    /\ Settled =>
          /\ error = NoError
          /\ Rendered = "no congestion"

\* C11 as amended: with an empty or unparsable payload the endpoint answers
\* 500 with the message of that case and the raw text attached, no event
\* list reaches the page, and the finished page shows that message as its
\* error.
C11_ErrorWithRawText ==
  C11_NoPayload =>
    LET detail == IF responseText = "blank" THEN "Gemini response was empty"
                  ELSE "Gemini response was not valid JSON"
    IN  /\ IsNull(events)
        /\ IsNull(eventData)
        /\ groupedEvents = <<>>
        /\ ~IsNull(eventRes) =>
              /\ eventRes.status = 500
              /\ eventRes.detail = detail
              /\ eventRes.responseText = responseText
        /\ eventPromise = "rejected" => rejection = detail
        /\ Settled =>
              /\ error = detail
              /\ Rendered = "error"

\* the page has finished with the error of a blank upstream answer
C11_Witness ==
  /\ responseText = "blank"
  /\ Settled
  /\ Rendered = "error"
  /\ error = "Gemini response was empty"

\* ---------------------------------------------------------------- C12
\* the request the route is handling lacks required input: for the events
\* route a body that is not JSON, or without target_date, station_name or a
\* facility_list that is a list; for the venue search no stationName or one
\* shorter than 2 characters
C12_InputMissing ==
  /\ ~IsNull(call)
  /\ \/ /\ call.route = "events"
        /\ \/ ~call.req.json
           \/ ~call.req.target_date
           \/ ~call.req.station_name
           \/ call.req.facility_list \in {"missing", "other"}
     \/ /\ call.route = "search-venues"
        /\ \/ ~call.stationName.given
           \/ call.stationName.name \in {"", "A"}

\* the key of the route the request went to is configured
C12_Configured ==
  IF call.route = "events" THEN apiKey ELSE call.clientId

\* C12 as claimed: a request without its required input is answered 400 at
\* once, and no upstream service is called.
C12_Rejected400 ==
  C12_InputMissing =>
    /\ handlerPc = "done"
    /\ upstream = <<>>
    /\ response.status = 400

\* C12 as amended: a request without its required input is answered at once
\* and no upstream service is called; the answer is 400 when the key of the
\* route is configured and 500 when it is not.
C12_RejectedAtOnce ==
  C12_InputMissing =>
    /\ handlerPc = "done"
    /\ upstream = <<>>
    /\ response.status = (IF C12_Configured THEN 400 ELSE 500)
    /\ "detail" \in DOMAIN response

\* a station name of one character was answered 400
C12_Witness ==
  /\ ~IsNull(call)
  /\ call.route = "search-venues"
  /\ call.stationName = [given |-> TRUE, name |-> "A"]
  /\ ~IsNull(response)
  /\ response.status = 400
  /\ upstream = <<>>

\* ---------------------------------------------------------------- C13
\* what the service answered that the venue search route called (or "not
\* called")
C13_AnswerOf(service) ==
  IF \E i \in DOMAIN upstream : upstream[i].service = service
  THEN upstream[CHOOSE i \in DOMAIN upstream : upstream[i].service = service].answer
  ELSE "not called"

\* C13: the venue search route answers 404 only when the coordinate service
\* answered without a match, answers 500 when the coordinate service or the
\* venue search service failed, and does not call the venue search when it
\* has no coordinates.
C13_StatusByCause ==
  (~IsNull(call) /\ call.route = "search-venues") =>
    /\ (C13_AnswerOf("nominatim") \in {"pending", "rejects", "not ok", "malformed", "empty"})
          => C13_AnswerOf("yahoo") = "not called"
    /\ ~IsNull(response) =>
          /\ response.status = 404 => C13_AnswerOf("nominatim") = "empty"
          /\ C13_AnswerOf("nominatim") \in {"rejects", "not ok", "malformed"}
                => response.status = 500
          /\ C13_AnswerOf("yahoo") \in {"rejects", "not ok", "malformed"}
                => response.status = 500

\* ---------------------------------------------------------------- C14
\* C14: every error response of the three routes carries the user-facing
\* message in `detail`, and carries diagnostic text, if any, in `error` and
\* in no other field.
C14_ErrorShape ==
  (~IsNull(response) /\ response.status # 200) =>
    /\ "detail" \in DOMAIN response
    /\ DOMAIN response \subseteq {"status", "detail", "error"}

\* ---------------------------------------------------------------- C15
\* the lookup has returned the map of a survey answer
C15_Returned ==
  /\ ~IsNull(surveyFetch)
  /\ ~IsNull(stationPassengerMap)
  /\ surveyFetch.key
  /\ surveyFetch.outcome.kind = "json"

\* the survey entries that have records
C15_Entries ==
  {e \in DOMAIN surveyFetch.outcome.surveyData :
     /\ "passengerSurveyObject" \in DOMAIN surveyFetch.outcome.surveyData[e]
     /\ surveyFetch.outcome.surveyData[e].passengerSurveyObject # <<>>}

\* the first of the records of the most recent survey year
C15_MostRecent(records) ==
  records[CHOOSE i \in DOMAIN records :
            /\ \A j \in DOMAIN records : records[j].surveyYear <= records[i].surveyYear
            /\ \A j \in 1..(i - 1) : records[j].surveyYear < records[i].surveyYear]

\* C15: every station is given the figure of the most recent survey year
\* among its own records, and of the records of that year the first one: a
\* later record of the same year does not replace it.
C15_MostRecentYear ==
  C15_Returned =>
    \A e \in C15_Entries :
       LET entry == surveyFetch.outcome.surveyData[e]
           chosen == C15_MostRecent(entry.passengerSurveyObject)
       IN  \A k \in DOMAIN entry.station :
              chosen.passengerJourneys > 0 =>
                 /\ entry.station[k] \in DOMAIN stationPassengerMap
                 /\ stationPassengerMap[entry.station[k]] = chosen.passengerJourneys

\* a station got the figure of the first of two records of the same year
\* whose figures differ
C15_Witness ==
  /\ C15_Returned
  /\ \E e \in C15_Entries :
        LET entry == surveyFetch.outcome.surveyData[e]
            records == entry.passengerSurveyObject
        IN  /\ Len(records) = 2
            /\ records[1].surveyYear = records[2].surveyYear
            /\ records[1].passengerJourneys = 100
            /\ records[2].passengerJourneys = 250
            /\ stationPassengerMap[entry.station[1]] = 100

\* ---------------------------------------------------------------- C16
\* the lookup has returned
C16_Returned == ~IsNull(surveyFetch) /\ ~IsNull(stationPassengerMap)

\* the station is absent from the survey data: the survey was not obtained,
\* or no entry with records names the station, or the latest figure of the
\* station's entry is not positive
C16_Absent(station) ==
  \/ ~surveyFetch.key
  \/ surveyFetch.outcome.kind # "json"
  \/ \A e \in C15_Entries :
        LET entry == surveyFetch.outcome.surveyData[e]
        IN  \/ \A k \in DOMAIN entry.station : entry.station[k] # station
            \/ C15_MostRecent(entry.passengerSurveyObject).passengerJourneys <= 0

\* C16: for a station absent from the survey data the lookup yields the
\* default profile, 25000 daily passengers flagged is_default, and never 0
\* or an unflagged figure.
C16_DefaultProfile ==
  C16_Returned =>
    \A station \in {"S1", "S2", "S3", "S9"} :
       C16_Absent(station) =>
          /\ station \in DOMAIN stationPassengerMap
          /\ stationPassengerMap[station] = [daily_passengers |-> 25000, is_default |-> TRUE]

\* ---------------------------------------------------------------- C17
\* C17: the value stored for a station is twice the most recent survey
\* figure of the station.
C17_Doubled ==
  C15_Returned =>
    \A e \in C15_Entries :
       LET entry == surveyFetch.outcome.surveyData[e]
           chosen == C15_MostRecent(entry.passengerSurveyObject)
       IN  \A k \in DOMAIN entry.station :
              entry.station[k] \in DOMAIN stationPassengerMap =>
                 stationPassengerMap[entry.station[k]] = 2 * chosen.passengerJourneys

\* ---------------------------------------------------------------- C18
\* both tasks have started only if the venue search has succeeded, they
\* start together, and the load is reported complete only when both have
\* finished
C18_Joined ==
  /\ (eventPromise # "none" \/ imagePromise # "none") =>
        /\ ~IsNull(venueData)
        /\ venueData.ok
        /\ eventPromise # "none"
        /\ imagePromise # "none"
  /\ progressMessage = "done" =>
        /\ eventPromise = "fulfilled"
        /\ imagePromise = "fulfilled"

\* a step of the running image task writes none of the variables the event
\* task writes, and a step of the running event task writes none of the
\* variables the image task writes
C18_Disjoint ==
  /\ (imagePromise \in {"geo", "img"} /\ imagePromise' # imagePromise) =>
        UNCHANGED <<eventData, hasCongestedEvents, progressMessage, eventPromise,
                    rejection>>
  /\ (eventPromise = "pending" /\ eventPromise' # eventPromise) =>
        UNCHANGED <<stationImageUrl, imagePromise>>
  /\ stationImageUrl' # stationImageUrl =>
        UNCHANGED <<eventData, hasCongestedEvents, progressMessage>>

\* C18: event retrieval and image retrieval are two tasks that start only
\* after the venue search has succeeded, the load is reported complete only
\* after both have finished, and the two tasks write disjoint variables.
C18_TwoTasks == []C18_Joined /\ [][C18_Disjoint]_vars

\* the load is complete with the results of both tasks: a timeline from the
\* event task and the station image from the image task
C18_Witness ==
  /\ progressMessage = "done"
  /\ stationImageUrl # NoError
  /\ Len(groupedEvents) > 0

\* ---------------------------------------------------------------- C20
\* C20: the scale of an event is the outcome of the first-match policy and
\* so is always one of 1, 3, 5, 8 and 10: in the response of the events
\* endpoint and in the event list the page holds.
C20_PolicyScales ==
  /\ (~IsNull(eventRes) /\ eventRes.status = 200) =>
        \A e \in DOMAIN EventsOf(eventRes.body.items) :
           EventsOf(eventRes.body.items)[e].scale \in {1, 3, 5, 8, 10}
  /\ (~IsNull(eventData) /\ eventData.isArray) =>
        \A e \in DOMAIN EventsOf(eventData.items) :
           EventsOf(eventData.items)[e].scale \in {1, 3, 5, 8, 10}

\* ---------------------------------------------------------------- C21
\* the event has no valid window: no congestion prediction, or only
\* predictions with end_hour <= start_hour
C21_NoValidWindow(event) ==
  \/ ~HasPredictions(event)
  \/ \A p \in DOMAIN event.congestion_predictions :
        event.congestion_predictions[p].end_hour <= event.congestion_predictions[p].start_hour

\* C21: an event with no valid window has weighted throughput 0, so its
\* scale comes from the attendance branch alone: it is 3 or 1, in the
\* response of the events endpoint and in the event list the page holds.
C21_NoWindowScale ==
  /\ (~IsNull(eventRes) /\ eventRes.status = 200) =>
        \A e \in DOMAIN EventsOf(eventRes.body.items) :
           C21_NoValidWindow(EventsOf(eventRes.body.items)[e])
              => EventsOf(eventRes.body.items)[e].scale \in {1, 3}
  /\ (~IsNull(eventData) /\ eventData.isArray) =>
        \A e \in DOMAIN EventsOf(eventData.items) :
           C21_NoValidWindow(EventsOf(eventData.items)[e])
              => EventsOf(eventData.items)[e].scale \in {1, 3}
\* ---------------------------------------------------------------- C23
\* the entries of the pair (railwayId, stationId)
C23_Of(favs, railwayId, stationId) ==
  SelectSeq(favs, LAMBDA f : f.railwayId = railwayId /\ f.stationId = stationId)

\* the entries of the other pairs, in their order
C23_Others(favs, railwayId, stationId) ==
  SelectSeq(favs, LAMBDA f : ~(f.railwayId = railwayId /\ f.stationId = stationId))

\* the store holds at most one entry per pair
C23_OnePerPair ==
  \A i, j \in DOMAIN localStorage.items :
    (/\ localStorage.items[i].railwayId = localStorage.items[j].railwayId
     /\ localStorage.items[i].stationId = localStorage.items[j].stationId) => i = j

\* the favorites shown are at most 5 stored entries, larger counts first
C23_Shown ==
  selector.mounted =>
    /\ Len(selector.favorites) <= MaxShown
    /\ \A i \in DOMAIN selector.favorites :
         \E j \in DOMAIN localStorage.items :
           selector.favorites[i] = localStorage.items[j]
    /\ \A i, j \in DOMAIN selector.favorites :
         i < j => selector.favorites[i].count >= selector.favorites[j].count

\* the labels handleSearch stores with a new entry are both known
C23_LabelsKnown ==
  /\ LabelOf(selector.railwayOptions, selector.selectedRailway) # ""
  /\ LabelOf(selector.stations, selector.selectedStation) # ""

\* a search leaves the entries of the other pairs as they were
C23_OthersKept ==
  C23_Others(localStorage'.items, selector.selectedRailway, selector.selectedStation)
    = C23_Others(localStorage.items, selector.selectedRailway, selector.selectedStation)

\* a search counts the selected pair once more, from 0 when it was absent
C23_Counted ==
  CountSum(C23_Of(localStorage'.items, selector.selectedRailway, selector.selectedStation))
    = CountSum(C23_Of(localStorage.items, selector.selectedRailway,
                      selector.selectedStation)) + 1

\* a search of an absent pair with an unknown label leaves the store as it was
C23_Skipped ==
  /\ C23_Of(localStorage.items, selector.selectedRailway, selector.selectedStation) = <<>>
  /\ ~C23_LabelsKnown

C27_Values(options) == {options[i].value : i \in DOMAIN options}

\* C27: in the selector, once every station-list request has answered and the
\* list is shown, the stations are those fetched for the railway that is
\* selected, and the selected station is empty or one of that railway's stations.
C27_ListOfSelectedRailway ==
  (/\ selector.mounted
   /\ stationRequests = <<>>
   /\ StationSelectShown)
  => /\ selector.stations = StationListOf(selector.selectedRailway)
     /\ selector.selectedStation
          \in {""} \cup C27_Values(StationListOf(selector.selectedRailway))

\* ---------------------------------------------------------------- C24
\* the venue search has been answered with a list
C24_Answered ==
  /\ handlerPc = "done"
  /\ ~IsNull(call)
  /\ call.route = "search-venues"
  /\ response.status = 200

\* the venues the upstream search listed, and the venues returned
C24_Upstream == upstream[Len(upstream)].features
C24_Returned == response.body.venue_results.Feature

\* the part of a name before its first ASCII or full-width space
C24_Base(name) ==
  LET spaces == {i \in DOMAIN name : name[i] \in {"sp", "wsp"}}
  IN  IF spaces = {} THEN name
      ELSE SubSeq(name, 1, (CHOOSE i \in spaces : \A j \in spaces : i <= j) - 1)

\* the upstream venue at position k is not of an excluded category
C24_Passed(k) == C24_Upstream[k].Genre \notin ExcludedCategories

\* the upstream venue at position k is the first of its base name that passed
C24_FirstOfBase(k) ==
  /\ C24_Passed(k)
  /\ \A j \in 1..(k - 1) :
       C24_Passed(j) => C24_Base(C24_Upstream[j].Name) # C24_Base(C24_Upstream[k].Name)

\* the position in the upstream list of the i-th returned venue
C24_Position(i) == C24_Returned[i].Id

\* C24: in the list the venue search returns no two venues share a base name;
\* the venues returned are, for every base name, the first upstream venue that
\* passed the category filter; they keep their upstream order; and
\* ResultInfo.Count is the number of venues returned.
C24_Deduplicated ==
  C24_Answered =>
    /\ \A i, j \in DOMAIN C24_Returned :
         C24_Base(C24_Returned[i].Name) = C24_Base(C24_Returned[j].Name) => i = j
    /\ \A i \in DOMAIN C24_Returned :
         /\ C24_Position(i) \in DOMAIN C24_Upstream
         /\ C24_Returned[i].Name = C24_Upstream[C24_Position(i)].Name
         /\ C24_FirstOfBase(C24_Position(i))
    /\ \A k \in DOMAIN C24_Upstream :
         C24_FirstOfBase(k) => \E i \in DOMAIN C24_Returned : C24_Position(i) = k
    /\ \A i, j \in DOMAIN C24_Returned :
         i < j => C24_Position(i) < C24_Position(j)
    /\ response.body.venue_results.ResultInfo.Count = Len(C24_Returned)

\* two upstream venues of one base name, told apart by a full-width space,
\* the first of an excluded category: the second is the one returned
C24_Witness ==
  /\ C24_Answered
  /\ Len(C24_Upstream) = 2
  /\ C24_Upstream[1].Name = <<"a">>
  /\ C24_Upstream[2].Name = <<"a", "wsp", "c">>
  /\ ~C24_Passed(1)
  /\ C24_Passed(2)
  /\ Len(C24_Returned) = 1
  /\ C24_Position(1) = 2

\* ---------------------------------------------------------------- C28
\* C28: in the page with the progress bar, the progress value stays within
\* 0..100 in every state of a load.
C28_ProgressInRange == barPage.progress \in 0..100

\* ---------------------------------------------------------------- C25
\* how often the tuple t occurs in the list
C25_Occurrences(list, t) == Cardinality({k \in DOMAIN list : list[k] = t})

\* the list a is what is left of the list b when some elements are dropped
RECURSIVE C25_IsSubsequence(_, _)
C25_IsSubsequence(a, b) ==
  IF a = <<>> THEN TRUE
  ELSE IF b = <<>> THEN FALSE
  ELSE IF Head(a) = Head(b) THEN C25_IsSubsequence(Tail(a), Tail(b))
  ELSE C25_IsSubsequence(a, Tail(b))

\* the members of the group g, each with the window of the group
C25_MembersOf(g) == TuplesOf(<<groupedEvents[g]>>)

\* the sum of the member counts of the first n groups
RECURSIVE C25_CountSum(_)
C25_CountSum(n) ==
  IF n = 0 THEN 0 ELSE groupedEvents[n].eventCount + C25_CountSum(n - 1)

\* C25: every tuple that passed the filter (scale >= 5) is in exactly one
\* group: the member counts sum to the number of passed tuples, each member
\* count is the length of the member list, every member carries the window
\* of its group (the members with their groups' windows are the passed
\* tuples, each as often as it passed), and the members of a group are in
\* the order in which they were encountered.
C25_Partition ==
  GroupingDone =>
    /\ C25_CountSum(Len(groupedEvents)) = Len(PassedTuples)
    /\ \A g \in DOMAIN groupedEvents :
         /\ groupedEvents[g].eventCount = Len(groupedEvents[g].events)
         /\ groupedEvents[g].eventCount >= 1
         /\ C25_IsSubsequence(C25_MembersOf(g), PassedTuples)
    /\ \A k \in DOMAIN PassedTuples :
         C25_Occurrences(TuplesOf(groupedEvents), PassedTuples[k])
           = C25_Occurrences(PassedTuples, PassedTuples[k])
    /\ \A k \in DOMAIN TuplesOf(groupedEvents) :
         C25_Occurrences(PassedTuples, TuplesOf(groupedEvents)[k]) >= 1

\* two different tuples passed and share a window: one group holds both, the
\* tuple encountered first as its first member
C25_Witness ==
  /\ GroupingDone
  /\ Len(PassedTuples) = 2
  /\ PassedTuples[1] # PassedTuples[2]
  /\ Len(groupedEvents) = 1
  /\ groupedEvents[1].eventCount = 2
  /\ groupedEvents[1].events[1] = Member(PassedTuples[1])
  /\ groupedEvents[1].events[2] = Member(PassedTuples[2])
  /\ groupedEvents[1].events[1] # groupedEvents[1].events[2]

\* ---------------------------------------------------------------- C29
\* without station or date the first effect ends the load with the error
\* and no request is ever issued
C29_MissingParams ==
  (~params /\ pc # "mount") =>
    /\ ~isLoading
    /\ error # NoError
    /\ IsNull(venueData)
    /\ IsNull(eventReq)
    /\ IsNull(eventRes)
    /\ eventPromise = "none"
    /\ imagePromise = "none"

\* a step of the load is still to come: ENABLED Next, action by action (POST
\* is enabled exactly when EventFetchFails is: an event request is in flight;
\* GroupingEffect is enabled exactly when an effect is pending on a page that
\* has not crashed)
C29_StepLeft ==
  \/ ENABLED Mount
  \/ ENABLED VenueResponse
  \/ ENABLED EventFetchFails
  \/ ENABLED EventResponse
  \/ ENABLED Join
  \/ ENABLED Timer
  \/ effectPending /\ ~crashed
  \/ ENABLED GeoSearchResponse
  \/ ENABLED ImageResponse

\* C29: every load terminates: while isLoading is true a step of the load is
\* still to come (an answer to a request that was sent, the join, the timer,
\* a pending effect), so that isLoading becomes false once every request is
\* answered or has failed; and without station or date it is false with the
\* error set and no request issued.
C29_Terminates ==
  /\ isLoading => C29_StepLeft
  /\ C29_MissingParams

\* ---------------------------------------------------------------- C30
\* the event request failed: it rejected or was answered with an error status
C30_EventFailed ==
  /\ eventPromise = "rejected"
  /\ rejection # "TypeError"

\* a step of the image task changes nothing but the task and the image
C30_ImageStep ==
  (imagePromise \in {"geo", "img"} /\ imagePromise' # imagePromise) =>
    UNCHANGED <<error, isLoading, venueData, eventData, groupedEvents,
                hasCongestedEvents, pc, crashed>>

\* the error is never that of the image task, which always ends fulfilled:
\* it is the missing parameters, the failed venue search or the rejection of
\* the event task; a load that was joined without a rejection has no error
\* whether an image was found or not
C30_ErrorOnlyFromEvents ==
  /\ error # NoError =>
       \/ ~params
       \/ IsNull(venueData)
       \/ eventPromise = "rejected" /\ error = rejection
  /\ imagePromise \in {"none", "geo", "img", "fulfilled"}
  /\ (pc \in {"timer", "done"} /\ eventPromise = "fulfilled") =>
       /\ error = NoError
       /\ imagePromise = "fulfilled"
  /\ (Settled /\ ~crashed /\ eventPromise = "fulfilled" /\ Len(groupedEvents) > 0) =>
       Rendered = "timeline"

\* once the failure of the event request was caught, the error is set and it
\* is what the page shows when the load is over
C30_EventFailureShown ==
  (C30_EventFailed /\ pc \in {"timer", "done"}) =>
    /\ error = rejection
    /\ error # NoError
    /\ groupedEvents = <<>>
    /\ Rendered = (IF isLoading THEN "loading" ELSE "error")

C26_AllCompleted ==
  /\ Len(loads) = MaxLoads
  /\ \A k \in DOMAIN loads :
       /\ loads[k].pc = "done"
       /\ loads[k].imagePromise \in {"none", "fulfilled"}

\* the page state the run k leaves when it is the only one
C26_StateOf(k) ==
  [venueData |-> IF loads[k].venue = "ok" THEN k ELSE 0,
   eventData |-> IF loads[k].event = "ok" THEN k ELSE 0,
   groupedEvents |-> IF loads[k].event = "ok" THEN k ELSE 0,
   stationImageUrl |-> IF loads[k].image THEN k ELSE 0,
   error |-> IF loads[k].venue = "fails" \/ loads[k].event = "fails" THEN k ELSE 0,
   isLoading |-> FALSE]

\* C26: when stationName or date changed while requests of an earlier load
\* were in flight, then once all requests have completed the page state
\* (venueData, eventData, groupedEvents, stationImageUrl, error) is that of
\* the most recent load.
C26_LatestLoadWins ==
  C26_AllCompleted => loadPage = C26_StateOf(Len(loads))

====
